---------------------------- MODULE Spec2Model ----------------------------
(***************************************************************************)
(* A model of the schema engine of mysql-to-json: the raw-row validator,   *)
(* the column / table / database objects, the CREATE TABLE generator and   *)
(* the column type classifier; and of the browser page and the server      *)
(* that feed it.                                                           *)
(*                                                                         *)
(* JavaScript values are tagged records [t, s, n]: t is the value's kind   *)
(* ("string", "number", "boolean", "null", "undefined"), s the text of a   *)
(* string and n the value of a number.  The kind "absent" marks a key that *)
(* an object does not have (key in obj is false).  Strings are TLA+        *)
(* strings, taken apart with Len and SubSeq.                               *)
(***************************************************************************)
EXTENDS Integers, Sequences, FiniteSets, TLC

VARIABLES
    column,     \* the MySQLTableColumn object that importFromRawData fills
    db,         \* the MySQLDatabase object: its ordered map of tables
    lastCall,   \* the last operation called, its arguments and its outcome
    page,       \* the browser page of index.js: table_schema and the DOM it uses
    net,        \* the requests and responses in flight between page and server
    server      \* the server of server.js: its open database connections

vars == <<column, db, lastCall, page, net, server>>

\* the state of the browser and the server, which the schema engine leaves alone
web == <<page, net, server>>

\* the page as index.js finds it: table_schema = [], both lists and the
\* output textarea empty
NewPage ==
    [table_schema |-> [t |-> "array", rows |-> <<>>],
     databases |-> <<>>, active |-> 0, checklist |-> <<>>, output |-> ""]

WebAtStart == page = NewPage /\ net = {} /\ server = [open |-> 0]

---------------------------------------------------------------------------
(* JavaScript values                                                       *)

Str(x) == [t |-> "string", s |-> x, n |-> 0]
Num(k) == [t |-> "number", s |-> "", n |-> k]
Bool(k) == [t |-> "boolean", s |-> "", n |-> k]
Null == [t |-> "null", s |-> "", n |-> 0]
Undefined == [t |-> "undefined", s |-> "", n |-> 0]
Absent == [t |-> "absent", s |-> "", n |-> 0]

\* typeof val
TypeOf(val) == IF val.t = "null" THEN "object" ELSE val.t

\* `${val}` : the text a template literal makes of a value
TemplateText(val) ==
    CASE val.t = "string" -> val.s
      [] val.t = "number" -> ToString(val.n)
      [] val.t = "boolean" -> IF val.n = 1 THEN "true" ELSE "false"
      [] val.t = "null" -> "null"
      [] OTHER -> "undefined"

\* the truth value of val in a condition, in || and in !
Truthy(val) ==
    CASE val.t = "string" -> val.s # ""
      [] val.t = "number" -> val.n # 0
      [] val.t = "boolean" -> val.n = 1
      [] OTHER -> FALSE

---------------------------------------------------------------------------
(* Strings                                                                 *)

\* The character U+0060 (the SQL identifier quote).  The TLA+ lexer does not
\* read that character inside a string literal, so the model writes it "#";
\* no input of the model contains "#" otherwise.
Backtick == "#"

\* regexp.test(str) for a pattern that is a plain text: str contains pat
Contains(str, pat) ==
    \E i \in 1..(Len(str) - Len(pat) + 1) : SubSeq(str, i, i + Len(pat) - 1) = pat

\* str.startsWith(pat), the "^pat" of a regular expression
StartsWith(str, pat) == Len(str) >= Len(pat) /\ SubSeq(str, 1, Len(pat)) = pat

\* str with the letters of the alphabet from changed to those of the alphabet to
RECURSIVE MapCase(_, _, _)
MapCase(str, from, to) ==
    IF str = "" THEN ""
    ELSE LET c == SubSeq(str, 1, 1) IN
         (IF \E i \in 1..26 : SubSeq(from, i, i) = c
          THEN LET at == CHOOSE i \in 1..26 : SubSeq(from, i, i) = c IN SubSeq(to, at, at)
          ELSE c)
         \o MapCase(SubSeq(str, 2, Len(str)), from, to)

ToLowerCase(str) == MapCase(str, "ABCDEFGHIJKLMNOPQRSTUVWXYZ", "abcdefghijklmnopqrstuvwxyz")
ToUpperCase(str) == MapCase(str, "abcdefghijklmnopqrstuvwxyz", "ABCDEFGHIJKLMNOPQRSTUVWXYZ")

\* str.replace(/c/g, by) for a single character c
RECURSIVE ReplaceAll(_, _, _)
ReplaceAll(str, c, by) ==
    IF str = "" THEN ""
    ELSE (IF SubSeq(str, 1, 1) = c THEN by ELSE SubSeq(str, 1, 1))
         \o ReplaceAll(SubSeq(str, 2, Len(str)), c, by)

\* parts.join(sep); the parts are joined by halves, which keeps the
\* evaluation shallow on long arrays
RECURSIVE Join(_, _)
Join(parts, sep) ==
    IF parts = <<>> THEN ""
    ELSE IF Len(parts) = 1 THEN parts[1]
    ELSE Join(SubSeq(parts, 1, Len(parts) \div 2), sep) \o sep
         \o Join(SubSeq(parts, Len(parts) \div 2 + 1, Len(parts)), sep)

---------------------------------------------------------------------------
(* The raw row and its validation                                          *)

\* the 22 keys of a raw row, in the order of the validators object
RawKeys ==
    << "TABLE_CATALOG", "TABLE_SCHEMA", "TABLE_NAME", "COLUMN_NAME",
       "ORDINAL_POSITION", "COLUMN_DEFAULT", "IS_NULLABLE", "DATA_TYPE",
       "CHARACTER_MAXIMUM_LENGTH", "CHARACTER_OCTET_LENGTH",
       "NUMERIC_PRECISION", "NUMERIC_SCALE", "DATETIME_PRECISION",
       "CHARACTER_SET_NAME", "COLLATION_NAME", "COLUMN_TYPE", "COLUMN_KEY",
       "EXTRA", "PRIVILEGES", "COLUMN_COMMENT", "IS_GENERATED",
       "GENERATION_EXPRESSION" >>

RawKeySet == {RawKeys[i] : i \in 1..Len(RawKeys)}

requiredKeys ==
    << "TABLE_CATALOG", "TABLE_SCHEMA", "TABLE_NAME", "COLUMN_NAME",
       "ORDINAL_POSITION", "IS_NULLABLE", "DATA_TYPE", "COLUMN_TYPE",
       "COLUMN_KEY", "EXTRA", "PRIVILEGES", "COLUMN_COMMENT", "IS_GENERATED" >>

\* key in obj
HasKey(obj, key) == obj.fields[key].t # "absent"

\* obj[key] : undefined for a key the object does not have
Get(obj, key) == IF HasKey(obj, key) THEN obj.fields[key] ELSE Undefined

\* The result of the validator of one key on a value: the empty string when
\* the validator returns true, the message it returns otherwise.
validators(key, val) ==
    CASE key \in {"TABLE_CATALOG", "TABLE_SCHEMA", "TABLE_NAME", "COLUMN_NAME", "DATA_TYPE",
                  "COLUMN_TYPE", "EXTRA", "PRIVILEGES", "COLUMN_COMMENT"} ->
            IF TypeOf(val) = "string" THEN "" ELSE "Expected string, got " \o TypeOf(val)
      [] key = "ORDINAL_POSITION" ->
            IF TypeOf(val) = "number" THEN "" ELSE "Expected number, got " \o TypeOf(val)
      [] key \in {"COLUMN_DEFAULT", "CHARACTER_SET_NAME", "COLLATION_NAME",
                  "GENERATION_EXPRESSION"} ->
            IF val.t = "null" \/ TypeOf(val) = "string" THEN ""
            ELSE "Expected string or null, got " \o TypeOf(val)
      [] key \in {"CHARACTER_MAXIMUM_LENGTH", "CHARACTER_OCTET_LENGTH", "NUMERIC_PRECISION",
                  "NUMERIC_SCALE", "DATETIME_PRECISION"} ->
            IF val.t = "null" \/ TypeOf(val) = "number" THEN ""
            ELSE "Expected number or null, got " \o TypeOf(val)
      [] key = "IS_NULLABLE" ->
            IF val = Str("YES") \/ val = Str("NO") THEN ""
            ELSE "Expected 'YES' or 'NO', got " \o TemplateText(val)
      [] key = "COLUMN_KEY" ->
            IF val.t = "string" /\ val.s \in {"PRI", "UNI", "MUL", ""} THEN ""
            ELSE "Expected 'PRI', 'UNI', 'MUL' or empty string, got " \o TemplateText(val)
      [] key = "IS_GENERATED" ->
            IF val = Str("NEVER") \/ val = Str("ALWAYS") \/ TypeOf(val) = "string" THEN ""
            ELSE "Expected 'NEVER', 'ALWAYS' or string, got " \o TemplateText(val)

\* the outcome of a call: whether it threw, the message of the error, the text returned
Returned(text) == [threw |-> FALSE, error |-> "", value |-> text]
Threw(message) == [threw |-> TRUE, error |-> message, value |-> ""]

\* the loop over requiredKeys from index i on: the first key the object
\* lacks, or "" when it has them all
\* (variant: the loop tests the value against null, not the key's presence)
RECURSIVE FirstMissing_Mutant(_, _)
FirstMissing_Mutant(obj, i) ==
    IF i > Len(requiredKeys) THEN ""
    ELSE IF Get(obj, requiredKeys[i]).t = "null" THEN requiredKeys[i]
    ELSE FirstMissing_Mutant(obj, i + 1)

RECURSIVE FirstMissing(_, _)
FirstMissing(obj, i) ==
    IF i > Len(requiredKeys) THEN ""
    ELSE IF ~HasKey(obj, requiredKeys[i]) THEN requiredKeys[i]
    ELSE FirstMissing(obj, i + 1)

\* the loop over the validators from index i on: the message of the first
\* validator that returns a text, or "" when all return true
RECURSIVE FirstInvalid(_, _)
FirstInvalid(obj, i) ==
    IF i > Len(RawKeys) THEN ""
    ELSE LET validationResult == validators(RawKeys[i], Get(obj, RawKeys[i])) IN
         IF validationResult # ""
         THEN "Invalid " \o RawKeys[i] \o ": " \o validationResult
         ELSE FirstInvalid(obj, i + 1)

\* assertColumnMetadataRaw(obj)
assertColumnMetadataRaw(obj) ==
    IF obj.t # "object" THEN Threw("Input must be a non-null object")
    ELSE LET missing == FirstMissing(obj, 1) IN
         IF missing # "" THEN Threw("Missing required field: " \o missing)
         ELSE LET invalid == FirstInvalid(obj, 1) IN
              IF invalid # "" THEN Threw(invalid) ELSE Returned("true")

---------------------------------------------------------------------------
(* MySQLTableColumn                                                        *)

\* the fields of a MySQLTableColumn; Fields[i] is filled from RawKeys[i]
Fields ==
    << "tableCatalog", "tableSchema", "tableName", "columnName",
       "ordinalPosition", "columnDefault", "isNullable", "dataType",
       "characterMaximumLength", "characterOctetLength",
       "numericPrecision", "numericScale", "datetimePrecision",
       "characterSetName", "collationName", "columnType", "columnKey",
       "extra", "privileges", "columnComment", "isGenerated",
       "generationExpression" >>

FieldSet == {Fields[i] : i \in 1..Len(Fields)}

RawKeyOf == [field \in FieldSet |-> RawKeys[CHOOSE i \in 1..Len(Fields) : Fields[i] = field]]

\* new MySQLTableColumn() : every declared field is undefined
NewColumn == [f \in FieldSet |-> Undefined]

\* (variant: the fields are assigned before the row is validated)
importFromRawData_AssignsFirst(col, rawMetadata) ==
    [outcome |-> IF assertColumnMetadataRaw(rawMetadata).threw
                 THEN assertColumnMetadataRaw(rawMetadata) ELSE Returned("undefined"),
     column |-> [f \in FieldSet |-> Get(rawMetadata, RawKeyOf[f])]]

\* column.importFromRawData(rawMetadata): the outcome of the call and the
\* column after it; the assignments run only when the validation returned
importFromRawData(col, rawMetadata) ==
    LET checked == assertColumnMetadataRaw(rawMetadata) IN
    IF checked.threw
    THEN [outcome |-> checked, column |-> col]
    ELSE [outcome |-> Returned("undefined"),
          column |-> [f \in FieldSet |-> Get(rawMetadata, RawKeyOf[f])]]

isPrimaryKey(col) == col.columnKey = Str("PRI")

allowsNull(col) == col.isNullable = Str("YES")

isAutoIncrement(col) == Contains(col.extra.s, "auto_increment")

---------------------------------------------------------------------------
(* The type classifier (mysql_schema_helpers.js).  A predicate returns an  *)
(* outcome whose value is "true" or "false", or the error it throws.       *)

\* regexp.test(str) for a pattern that is an alternation of plain texts
TestAny(alternatives, str) == \E pat \in alternatives : Contains(str, pat)

BoolText(b) == IF b THEN "true" ELSE "false"

\* calling toLowerCase() on a value that is not a string throws a TypeError
NotAString(val) == val.t # "string"
TypeErrorOf(field) == Threw("TypeError")

\* (variant: a bigint data type is matched like the other integer types)
hasIntegerDataType_NoThrow(col) ==
    IF NotAString(col.dataType) THEN TypeErrorOf("dataType")
    ELSE Returned(BoolText(TestAny({"integer", "int", "smallint", "tinyint",
                                    "mediumint", "bigint"}, ToLowerCase(col.dataType.s))))

hasIntegerDataType(col) ==
    IF NotAString(col.dataType) THEN TypeErrorOf("dataType")
    ELSE LET dataType == ToLowerCase(col.dataType.s) IN
         IF Contains(dataType, "bigint") THEN Threw("bigint not supported")
         ELSE Returned(BoolText(TestAny({"integer", "int", "smallint", "tinyint",
                                         "mediumint", "bigint"}, dataType)))

\* (variant: the pattern without its middle alternative)
BooleanName_Prefixes(columnName) ==
    \/ StartsWith(columnName, "is_")
    \/ StartsWith(columnName, "has_")

\* /^is_|_is_|^has_/.test(columnName)
BooleanName(columnName) ==
    \/ StartsWith(columnName, "is_")
    \/ Contains(columnName, "_is_")
    \/ StartsWith(columnName, "has_")

hasBooleanDataType(col) ==
    IF NotAString(col.dataType) THEN TypeErrorOf("dataType")
    ELSE IF NotAString(col.columnType) THEN TypeErrorOf("columnType")
    ELSE IF ToLowerCase(col.columnType.s) = "tinyint(1)" THEN Returned("true")
    ELSE LET integer == hasIntegerDataType(col) IN
         IF integer.threw THEN integer
         ELSE IF integer.value = "true"
         THEN IF NotAString(col.columnName) THEN TypeErrorOf("columnName")
              ELSE Returned(BoolText(BooleanName(ToLowerCase(col.columnName.s))))
         ELSE Returned(BoolText(ToLowerCase(col.dataType.s) = "boolean"))

\* (variant: the pattern without its last alternative)
hasFloatDataType_WithoutDecimal(col) ==
    IF NotAString(col.dataType) THEN TypeErrorOf("dataType")
    ELSE Returned(BoolText(TestAny({"float", "double", "real"},
                                   ToLowerCase(col.dataType.s))))

hasFloatDataType(col) ==
    IF NotAString(col.dataType) THEN TypeErrorOf("dataType")
    ELSE Returned(BoolText(TestAny({"float", "double", "real", "decimal"},
                                   ToLowerCase(col.dataType.s))))

\* (variant: the data type is tested as it is written)
hasStringDataType_CaseSensitive(col) ==
    IF NotAString(col.dataType) THEN TypeErrorOf("dataType")
    ELSE Returned(BoolText(TestAny({"char", "varchar", "tinytext", "text",
                                    "mediumtext", "longtext"},
                                   col.dataType.s)))

hasStringDataType(col) ==
    IF NotAString(col.dataType) THEN TypeErrorOf("dataType")
    ELSE Returned(BoolText(TestAny({"char", "varchar", "tinytext", "text",
                                    "mediumtext", "longtext"},
                                   ToLowerCase(col.dataType.s))))

\* (variant: an unknown type is an error, as in the line the code comments out)
detectFieldTypeByColumnType_Strict(col) ==
    LET boolean == hasBooleanDataType(col) IN
    IF boolean.threw THEN boolean
    ELSE IF boolean.value = "true" THEN Returned("bit")
    ELSE LET integer == hasIntegerDataType(col) IN
         IF integer.threw THEN integer
         ELSE IF integer.value = "true" THEN Returned("integer")
         ELSE IF hasStringDataType(col).value = "true" THEN Returned("string")
         ELSE IF hasFloatDataType(col).value = "true" THEN Returned("float")
         ELSE Threw("Unknown column type")

detectFieldTypeByColumnType(col) ==
    LET boolean == hasBooleanDataType(col) IN
    IF boolean.threw THEN boolean
    ELSE IF boolean.value = "true" THEN Returned("bit")
    ELSE LET integer == hasIntegerDataType(col) IN
         IF integer.threw THEN integer
         ELSE IF integer.value = "true" THEN Returned("integer")
         ELSE LET string == hasStringDataType(col) IN
              IF string.threw THEN string
              ELSE IF string.value = "true" THEN Returned("string")
              ELSE LET float == hasFloatDataType(col) IN
                   IF float.threw THEN float
                   ELSE IF float.value = "true" THEN Returned("float")
                   ELSE Returned("string")

---------------------------------------------------------------------------
(* MySQLTable and MySQLDatabase.  A Map is a sequence of entries           *)
(* [key, value] in insertion order.                                        *)

\* (variant: a present key is deleted and set again, which moves it to the end)
MapSet_MovesToEnd(entries, key, value) ==
    Append(SelectSeq(entries, LAMBDA entry : entry.key # key), [key |-> key, value |-> value])

\* (variant: every set appends an entry)
MapSet_AlwaysAppends(entries, key, value) ==
    Append(entries, [key |-> key, value |-> value])

\* map.set(key, value): a present key keeps its place and takes the new
\* value, a new key goes to the end
MapSet(entries, key, value) ==
    IF \E i \in 1..Len(entries) : entries[i].key = key
    THEN [i \in 1..Len(entries) |->
            IF entries[i].key = key THEN [key |-> key, value |-> value] ELSE entries[i]]
    ELSE Append(entries, [key |-> key, value |-> value])

MapHas(entries, key) == \E i \in 1..Len(entries) : entries[i].key = key

\* map.get(key), for a key the map has
MapGet(entries, key) == entries[CHOOSE i \in 1..Len(entries) : entries[i].key = key].value

\* Array.from(map.values())
MapValues(entries) == [i \in 1..Len(entries) |-> entries[i].value]

\* new MySQLTable(tableName, columns): the outcome and the table built.  Each
\* row is imported into a new column, stored under the row's COLUMN_NAME; the
\* first row that fails validation ends the constructor with its error.
RECURSIVE ImportBatch(_, _)
ImportBatch(entries, rows) ==
    IF rows = <<>> THEN [outcome |-> Returned("undefined"), columns |-> entries]
    ELSE LET imported == importFromRawData(NewColumn, Head(rows)) IN
         IF imported.outcome.threw
         THEN [outcome |-> imported.outcome, columns |-> entries]
         ELSE ImportBatch(MapSet(entries, Get(Head(rows), "COLUMN_NAME"), imported.column),
                          Tail(rows))

NewTable(tableName, rows) ==
    LET batch == ImportBatch(<<>>, rows) IN
    [outcome |-> batch.outcome,
     table |-> [tableName |-> tableName, columns |-> batch.columns]]

\* table.addColumn(column)
addColumn(table, col) ==
    [table EXCEPT !.columns = MapSet(table.columns, col.columnName, col)]

\* (variant: the columns are returned in the order of ordinalPosition)
getColumns_ByOrdinal(table) ==
    SortSeq(MapValues(table.columns),
            LAMBDA a, b : a.ordinalPosition.n < b.ordinalPosition.n)

\* table.getColumns()
getColumns(table) == MapValues(table.columns)

\* db.addTable(table)
addTable(database, table) ==
    [database EXCEPT !.tables = MapSet(database.tables, table.tableName, table)]

\* new MySQLDatabase(databaseName)
NewDatabase(databaseName) == [databaseName |-> databaseName, tables |-> <<>>]

---------------------------------------------------------------------------
(* generateCreateTableQuery                                                *)

\* #escapeString(str)
escapeString(str) == ReplaceAll(ReplaceAll(str, "'", "''"), "\\", "\\\\")

\* (variant: the data type is compared as it is written)
formatDefaultValue_CaseSensitive(col) ==
    IF col.columnDefault.t = "null" THEN "NULL"
    ELSE IF col.dataType.s \in {"char", "varchar", "text", "enum", "set"}
    THEN "'" \o escapeString(col.columnDefault.s) \o "'"
    ELSE IF /\ col.dataType.s \in {"timestamp", "datetime"}
            /\ ToUpperCase(col.columnDefault.s) = "CURRENT_TIMESTAMP"
    THEN "CURRENT_TIMESTAMP"
    ELSE IF col.dataType.s \in {"blob", "binary"}
    THEN "x'" \o TemplateText(col.columnDefault) \o "'"
    ELSE TemplateText(col.columnDefault)

\* #formatDefaultValue(column)
formatDefaultValue(col) ==
    IF col.columnDefault.t = "null" THEN "NULL"
    ELSE IF ToLowerCase(col.dataType.s) \in {"char", "varchar", "text", "enum", "set"}
    THEN "'" \o escapeString(col.columnDefault.s) \o "'"
    ELSE IF /\ ToLowerCase(col.dataType.s) \in {"timestamp", "datetime"}
            /\ ToUpperCase(col.columnDefault.s) = "CURRENT_TIMESTAMP"
    THEN "CURRENT_TIMESTAMP"
    ELSE IF ToLowerCase(col.dataType.s) \in {"blob", "binary"}
    THEN "x'" \o TemplateText(col.columnDefault) \o "'"
    ELSE TemplateText(col.columnDefault)

\* (variant: AUTO_INCREMENT is written before DEFAULT)
ColumnDefinition_AutoIncrementFirst(col) ==
    Backtick \o TemplateText(col.columnName) \o Backtick \o " " \o TemplateText(col.columnType)
    \o (IF ~allowsNull(col) THEN " NOT NULL" ELSE "")
    \o (IF isAutoIncrement(col) THEN " AUTO_INCREMENT" ELSE "")
    \o (IF col.columnDefault.t # "null" THEN " DEFAULT " \o formatDefaultValue(col) ELSE "")
    \o (IF Truthy(col.columnComment)
        THEN " COMMENT '" \o escapeString(col.columnComment.s) \o "'" ELSE "")

\* the definition of one column: the body of the loop over the columns
ColumnDefinition(col) ==
    Backtick \o TemplateText(col.columnName) \o Backtick \o " " \o TemplateText(col.columnType)
    \o (IF ~allowsNull(col) THEN " NOT NULL" ELSE "")
    \o (IF col.columnDefault.t # "null" THEN " DEFAULT " \o formatDefaultValue(col) ELSE "")
    \o (IF isAutoIncrement(col) THEN " AUTO_INCREMENT" ELSE "")
    \o (IF Truthy(col.columnComment)
        THEN " COMMENT '" \o escapeString(col.columnComment.s) \o "'" ELSE "")

\* (variant: the columns of key MUL are pushed to uniqueKeys)
KeyNames_MulAsUnique(columns, class) ==
    LET mine(col) == IF isPrimaryKey(col) THEN "PRI"
                     ELSE IF col.columnKey \in {Str("UNI"), Str("MUL")} THEN "UNI"
                     ELSE "none"
        chosen == SelectSeq(columns, LAMBDA col : mine(col) = class)
    IN [i \in 1..Len(chosen) |-> Backtick \o TemplateText(chosen[i].columnName) \o Backtick]

\* the quoted names of the columns of one key class, in column order:
\* primaryKeys ("PRI"), uniqueKeys ("UNI") and indexes ("MUL")
RECURSIVE KeyNames(_, _)
KeyNames(columns, class) ==
    IF columns = <<>> THEN <<>>
    ELSE LET col == Head(columns)
             mine == IF isPrimaryKey(col) THEN "PRI"
                     ELSE IF col.columnKey = Str("UNI") THEN "UNI"
                     ELSE IF col.columnKey = Str("MUL") THEN "MUL"
                     ELSE "none"
         IN (IF mine = class
             THEN <<Backtick \o TemplateText(col.columnName) \o Backtick>> ELSE <<>>)
            \o KeyNames(Tail(columns), class)

UniqueKeyClause(uniqueCol) ==
    "UNIQUE KEY " \o Backtick \o ReplaceAll(uniqueCol, Backtick, "") \o "_unique" \o Backtick
    \o " (" \o uniqueCol \o ")"

\* (variant: a ?? b)
OrElse_Nullish(a, b) == IF a.t \in {"null", "undefined"} THEN b ELSE a

\* a || b
OrElse(a, b) == IF Truthy(a) THEN a ELSE b

\* the options object given when the caller passes none
NoOptions ==
    [engine |-> Undefined, charset |-> Undefined, collation |-> Undefined,
     comment |-> Undefined]

\* the statement for a table that has columns: the code after the first check
CreateTableText(table, columns, options) ==
    LET primaryKeys == KeyNames(columns, "PRI")
        uniqueKeys == KeyNames(columns, "UNI")
        columnDefinitions ==
            [i \in 1..Len(columns) |-> ColumnDefinition(columns[i])]
            \o (IF Len(primaryKeys) > 0
                THEN <<"PRIMARY KEY (" \o Join(primaryKeys, ", ") \o ")">> ELSE <<>>)
            \o [i \in 1..Len(uniqueKeys) |-> UniqueKeyClause(uniqueKeys[i])]
        charset == OrElse(options.charset, OrElse(columns[1].characterSetName, Str("utf8mb4")))
        collation ==
            OrElse(options.collation, OrElse(columns[1].collationName, Str("utf8mb4_unicode_ci")))
    IN "CREATE TABLE " \o Backtick \o TemplateText(table.tableName) \o Backtick \o " (\n  "
       \o Join(columnDefinitions, ",\n  ")
       \o "\n)"
       \o (IF Truthy(options.engine) THEN " ENGINE=" \o TemplateText(options.engine) ELSE "")
       \o " DEFAULT CHARSET=" \o TemplateText(charset)
       \o " COLLATE=" \o TemplateText(collation)
       \o (IF Truthy(options.comment)
           THEN " COMMENT='" \o escapeString(options.comment.s) \o "'" ELSE "")
       \o ";"

\* (variant: the check for an empty table is off by one)
generateCreateTableQuery_OffByOne(table, options) ==
    IF Len(getColumns(table)) <= 1
    THEN Threw("Table " \o TemplateText(table.tableName) \o " has no columns")
    ELSE Returned(CreateTableText(table, getColumns(table), options))

generateCreateTableQuery(table, options) ==
    IF Len(getColumns(table)) = 0
    THEN Threw("Table " \o TemplateText(table.tableName) \o " has no columns")
    ELSE Returned(CreateTableText(table, getColumns(table), options))

---------------------------------------------------------------------------
(* Inputs: raw rows as INFORMATION_SCHEMA.COLUMNS returns them             *)

\* the row of an int(11) auto-increment primary key `id` of table users
BaseFields ==
    [k \in RawKeySet |->
        CASE k = "TABLE_CATALOG" -> Str("def")
          [] k = "TABLE_SCHEMA" -> Str("app")
          [] k = "TABLE_NAME" -> Str("users")
          [] k = "COLUMN_NAME" -> Str("id")
          [] k = "ORDINAL_POSITION" -> Num(1)
          [] k = "IS_NULLABLE" -> Str("NO")
          [] k = "DATA_TYPE" -> Str("int")
          [] k = "NUMERIC_PRECISION" -> Num(10)
          [] k = "NUMERIC_SCALE" -> Num(0)
          [] k = "COLUMN_TYPE" -> Str("int(11)")
          [] k = "COLUMN_KEY" -> Str("PRI")
          [] k = "EXTRA" -> Str("auto_increment")
          [] k = "PRIVILEGES" -> Str("select,insert")
          [] k = "COLUMN_COMMENT" -> Str("")
          [] k = "IS_GENERATED" -> Str("NEVER")
          [] OTHER -> Null]

\* the object obj with the keys of changes set to the values of changes; the
\* value Absent deletes the key
With(obj, changes) ==
    [t |-> "object",
     fields |-> [k \in RawKeySet |->
                   IF k \in DOMAIN changes THEN changes[k] ELSE obj.fields[k]]]

BaseRow == [t |-> "object", fields |-> BaseFields]

\* the row of a varchar column
VarcharRow ==
    With(BaseRow,
         "COLUMN_NAME" :> Str("name") @@ "ORDINAL_POSITION" :> Num(2)
         @@ "DATA_TYPE" :> Str("varchar") @@ "COLUMN_TYPE" :> Str("varchar(64)")
         @@ "CHARACTER_MAXIMUM_LENGTH" :> Num(64) @@ "CHARACTER_OCTET_LENGTH" :> Num(256)
         @@ "NUMERIC_PRECISION" :> Null @@ "NUMERIC_SCALE" :> Null
         @@ "CHARACTER_SET_NAME" :> Str("utf8") @@ "COLLATION_NAME" :> Str("utf8_bin")
         @@ "COLUMN_KEY" :> Str("UNI") @@ "EXTRA" :> Str("")
         @@ "COLUMN_DEFAULT" :> Str("0") @@ "IS_NULLABLE" :> Str("YES")
         @@ "COLUMN_COMMENT" :> Str("user's name"))

---------------------------------------------------------------------------
(* The state machine.  lastCall records the operation called last: its     *)
(* name, the table it was called on, its options, the raw rows given to it *)
(* and its outcome.                                                        *)

\* the mark of a call that does not repeat the call before it
NotRepeated == [threw |-> FALSE, error |-> "", value |-> "(not repeated)"]

NoCall ==
    [op |-> "none", table |-> Undefined, options |-> NoOptions, rows |-> <<>>,
     outcome |-> Returned(""), previous |-> NotRepeated]

\* The record of a call.  previous is the outcome of the call before it when
\* that was the same operation on the same object with the same arguments.
Call(op, table, options, rows, outcome) ==
    [op |-> op, table |-> table, options |-> options, rows |-> rows, outcome |-> outcome,
     previous |-> IF /\ lastCall.op = op
                     /\ lastCall.table = table
                     /\ lastCall.options = options
                     /\ lastCall.rows = rows
                  THEN lastCall.outcome ELSE NotRepeated]

---------------------------------------------------------------------------
(* Validation: importFromRawData called on one column object with rows     *)
(* that differ from a valid row in one or two fields                       *)

ValidationRows ==
    {BaseRow, VarcharRow, With(BaseRow, "IS_NULLABLE" :> Str("YES")),
     With(BaseRow, "COLUMN_KEY" :> Str("")), With(BaseRow, "EXTRA" :> Bool(1))}
    \cup {With(BaseRow, k :> v) :
            k \in RawKeySet,
            v \in {Absent, Undefined, Null, Str(""), Str("x"), Str("YES"), Num(0), Num(7),
                   Num(-1), Bool(1)}}
    \cup {With(VarcharRow, k :> Absent) : k \in RawKeySet}
    \cup {With(BaseRow, requiredKeys[i] :> Absent @@ "TABLE_CATALOG" :> Num(1)) :
            i \in 1..Len(requiredKeys)}
    \cup {With(BaseRow, requiredKeys[i] :> Absent @@ "PRIVILEGES" :> Absent) :
            i \in 1..Len(requiredKeys)}
    \cup {[t |-> "null", fields |-> BaseFields], [t |-> "string", fields |-> BaseFields]}

Init ==
    /\ column = NewColumn
    /\ db = NewDatabase(Str("app"))
    /\ lastCall = NoCall
    /\ WebAtStart

\* column.importFromRawData(rawMetadata), for a row of ValidationRows.  An
\* error is not caught: it ends the caller, so no call follows a call that threw.
ImportFromRawData ==
    /\ ~lastCall.outcome.threw
    /\ \E rawMetadata \in ValidationRows :
       \E imported \in {importFromRawData(column, rawMetadata)} :
          /\ column' = imported.column
          /\ lastCall' = Call("importFromRawData", Undefined, NoOptions, <<rawMetadata>>,
                              imported.outcome)
    /\ UNCHANGED <<db, web>>

SpecValidate == Init /\ [][ImportFromRawData]_vars

---------------------------------------------------------------------------
(* Properties of the validation                                            *)

\* the thirteen required fields as the specification lists them
ClaimedRequired ==
    {"TABLE_CATALOG", "TABLE_SCHEMA", "TABLE_NAME", "COLUMN_NAME", "ORDINAL_POSITION",
     "IS_NULLABLE", "DATA_TYPE", "COLUMN_TYPE", "COLUMN_KEY", "EXTRA", "PRIVILEGES",
     "COLUMN_COMMENT", "IS_GENERATED"}

\* the shape the ColumnMetadataRaw type declares for a key
MatchesDeclaredShape(key, val) ==
    CASE key \in {"COLUMN_DEFAULT", "CHARACTER_SET_NAME", "COLLATION_NAME",
                  "GENERATION_EXPRESSION"} -> val.t \in {"string", "null"}
      [] key \in {"CHARACTER_MAXIMUM_LENGTH", "CHARACTER_OCTET_LENGTH",
                  "NUMERIC_PRECISION", "NUMERIC_SCALE", "DATETIME_PRECISION"} ->
            val.t \in {"number", "null"}
      [] key = "ORDINAL_POSITION" -> val.t = "number"
      [] key = "IS_NULLABLE" -> val.t = "string" /\ val.s \in {"YES", "NO"}
      [] key = "COLUMN_KEY" -> val.t = "string" /\ val.s \in {"PRI", "UNI", "MUL", ""}
      [] OTHER -> val.t = "string"

\* every required field is present and every present field has its shape
RequiredPresentAndShaped(obj) ==
    /\ obj.t = "object"
    /\ \A k \in ClaimedRequired : HasKey(obj, k)
    /\ \A k \in RawKeySet : HasKey(obj, k) => MatchesDeclaredShape(k, obj.fields[k])

\* the row of the last call is a valid row with the one key removed
ValidButFor(obj, key) ==
    /\ obj.t = "object"
    /\ ~HasKey(obj, key)
    /\ \A k \in RawKeySet \ {key} : HasKey(obj, k) /\ MatchesDeclaredShape(k, obj.fields[k])

Imported == lastCall.op = "importFromRawData"

\* C1: validation succeeds if and only if every required field is present
\* and every field that is present matches its declared shape; a row that
\* only omits an optional field is accepted.
C1_AcceptsIffRequiredPresentAndShaped ==
    Imported => (~lastCall.outcome.threw <=> RequiredPresentAndShaped(lastCall.rows[1]))

\* C2: removing one required field from a valid row makes validation fail
\* with the missing-field error that names exactly that field.
C2_MissingFieldNamed ==
    Imported =>
        \A k \in ClaimedRequired :
            ValidButFor(lastCall.rows[1], k) =>
                /\ lastCall.outcome.threw
                /\ lastCall.outcome.error = "Missing required field: " \o k

\* a valid varchar row without its COLUMN_COMMENT has been refused
C2_Witness ==
    /\ Imported
    /\ lastCall.rows[1] = With(VarcharRow, "COLUMN_COMMENT" :> Absent)
    /\ ValidButFor(lastCall.rows[1], "COLUMN_COMMENT")
    /\ lastCall.outcome.threw

---------------------------------------------------------------------------
(* Classification: detectFieldTypeByColumnType called on a column imported *)
(* from a valid row, for every column name, data type and column type of   *)
(* the sets below                                                          *)

InitClassify ==
    /\ column \in
          {importFromRawData(NewColumn,
                             With(BaseRow, "COLUMN_NAME" :> Str(name)
                                           @@ "DATA_TYPE" :> Str(dataType)
                                           @@ "COLUMN_TYPE" :> Str(columnType))).column :
             name \in {"id", "is_active", "user_is_admin", "has_children", "active_count",
                       "IS_OPEN", "this_value"},
             dataType \in {"int", "INT", "tinyint", "smallint", "mediumint", "integer",
                           "bigint", "BIGINT", "bigint unsigned", "varchar", "char", "text",
                           "longtext", "float", "double", "decimal", "real", "boolean",
                           "BOOLEAN", "date", "datetime", "timestamp", "enum", "blob", "json",
                           "point", "bit", "", "int_char", "int_float", "float_text"},
             columnType \in {"tinyint(1)", "TINYINT(1)", "tinyint(1) unsigned", "int(11)",
                             "bigint(20)", "varchar(64)"}}
    /\ db = NewDatabase(Str("app"))
    /\ lastCall = NoCall
    /\ WebAtStart

\* detectFieldTypeByColumnType(column)
DetectFieldTypeByColumnType ==
    /\ lastCall' = Call("detectFieldTypeByColumnType", Undefined, NoOptions, <<>>,
                        detectFieldTypeByColumnType(column))
    /\ UNCHANGED <<column, db, web>>

SpecClassify == InitClassify /\ [][DetectFieldTypeByColumnType]_vars

---------------------------------------------------------------------------
(* Properties of the classification.  The data type, the column type and   *)
(* the column name are read lower-cased, as the classifier reads them.     *)

Detected == lastCall.op = "detectFieldTypeByColumnType"

DataTypeLower == ToLowerCase(column.dataType.s)
ColumnTypeLower == ToLowerCase(column.columnType.s)
ColumnNameLower == ToLowerCase(column.columnName.s)

IsBigint == Contains(DataTypeLower, "bigint")

RaisedUnsupported == lastCall.outcome.threw /\ lastCall.outcome.error = "bigint not supported"

\* the patterns as the specification gives them
ClaimedIntegerLike ==
    \E pat \in {"integer", "int", "smallint", "tinyint", "mediumint"} :
        Contains(DataTypeLower, pat)
ClaimedStringLike ==
    \E pat \in {"char", "varchar", "tinytext", "text", "mediumtext", "longtext"} :
        Contains(DataTypeLower, pat)
ClaimedFloatLike ==
    \E pat \in {"float", "double", "real", "decimal"} : Contains(DataTypeLower, pat)
TextAt(str, i, pat) ==
    i + Len(pat) - 1 <= Len(str) /\ SubSeq(str, i, i + Len(pat) - 1) = pat
ClaimedBooleanName ==
    \/ TextAt(ColumnNameLower, 1, "is_")
    \/ TextAt(ColumnNameLower, 1, "has_")
    \/ \E i \in 1..Len(ColumnNameLower) : TextAt(ColumnNameLower, i, "_is_")
ClaimedBit ==
    \/ ColumnTypeLower = "tinyint(1)"
    \/ ClaimedIntegerLike /\ ClaimedBooleanName
    \/ DataTypeLower = "boolean"

\* C3 as stated: the unsupported-type error is raised for every column whose
\* data type contains bigint, whatever its name and its column type.
C3_BigintAlwaysRaises == (Detected /\ IsBigint) => RaisedUnsupported

\* C3 as amended: the unsupported-type error is raised for every column whose
\* data type contains bigint and whose column type is not tinyint(1),
\* whatever its name; with the column type tinyint(1) the kind bit is returned.
C3_BigintRaisesUnlessTinyint1 ==
    (Detected /\ IsBigint) =>
        IF ColumnTypeLower = "tinyint(1)"
        THEN ~lastCall.outcome.threw /\ lastCall.outcome.value = "bit"
        ELSE RaisedUnsupported

\* a bigint column named is_active of column type bigint(20) was refused
C3_Witness ==
    /\ Detected
    /\ column.dataType = Str("bigint")
    /\ column.columnType = Str("bigint(20)")
    /\ column.columnName = Str("is_active")
    /\ RaisedUnsupported

\* C4: for a data type that does not contain bigint the classifier returns,
\* without raising, one of bit, integer, string, float; a column that matches
\* none of the boolean, integer, string and float patterns yields string.
C4_TotalOverFourKinds ==
    (Detected /\ ~IsBigint) =>
        /\ ~lastCall.outcome.threw
        /\ lastCall.outcome.value \in {"bit", "integer", "string", "float"}
        /\ (~ClaimedBit /\ ~ClaimedIntegerLike /\ ~ClaimedStringLike /\ ~ClaimedFloatLike)
              => lastCall.outcome.value = "string"

\* a json column was classified string
C4_Witness ==
    /\ Detected
    /\ column.dataType = Str("json")
    /\ column.columnType = Str("int(11)")
    /\ lastCall.outcome = Returned("string")

\* C5: for a data type that does not contain bigint, bit is returned exactly
\* when the column type is tinyint(1), or the data type is integer-like and
\* the name matches ^is_|_is_|^has_, or the data type is boolean.
C5_BitExactlyWhen ==
    (Detected /\ ~IsBigint) => (lastCall.outcome = Returned("bit") <=> ClaimedBit)

\* the examples of C5: tinyint(1) is bit under any name; integer columns named
\* is_active, user_is_admin, has_children are bit and active_count is not
C5_Examples ==
    (Detected /\ ~IsBigint) =>
        /\ column.columnType = Str("tinyint(1)") => lastCall.outcome = Returned("bit")
        /\ (column.dataType = Str("int") /\ column.columnType = Str("int(11)")) =>
            /\ column.columnName \in {Str("is_active"), Str("user_is_admin"),
                                      Str("has_children")}
                  => lastCall.outcome = Returned("bit")
            /\ column.columnName = Str("active_count")
                  => lastCall.outcome = Returned("integer")

C5_BitRule == C5_BitExactlyWhen /\ C5_Examples

\* the int(11) column user_is_admin was classified bit
C5_Witness ==
    /\ Detected
    /\ column.dataType = Str("int")
    /\ column.columnType = Str("int(11)")
    /\ column.columnName = Str("user_is_admin")
    /\ lastCall.outcome = Returned("bit")

\* C19 as stated: first match wins in the order bit, integer, string, float:
\* a column that is not bit and whose data type matches
\* integer|int|smallint|tinyint|mediumint is integer, also when it matches the
\* string or the float pattern; one that matches the string pattern and none
\* of the earlier is string; one that matches only the float pattern is float.
C19_FirstMatchWins ==
    Detected =>
        /\ (~ClaimedBit /\ ClaimedIntegerLike) => lastCall.outcome = Returned("integer")
        /\ (~ClaimedBit /\ ~ClaimedIntegerLike /\ ClaimedStringLike)
              => lastCall.outcome = Returned("string")
        /\ (~ClaimedBit /\ ~ClaimedIntegerLike /\ ~ClaimedStringLike /\ ClaimedFloatLike)
              => lastCall.outcome = Returned("float")

\* C19 as amended: the same, for the data types that do not contain bigint;
\* a data type that contains bigint matches the integer pattern by its int,
\* and a column of it that is not bit is refused, not classified integer.
C19_FirstMatchWinsBigintAside ==
    Detected =>
        /\ (~ClaimedBit /\ ClaimedIntegerLike) =>
              IF IsBigint THEN RaisedUnsupported
              ELSE lastCall.outcome = Returned("integer")
        /\ (~ClaimedBit /\ ~ClaimedIntegerLike /\ ClaimedStringLike)
              => lastCall.outcome = Returned("string")
        /\ (~ClaimedBit /\ ~ClaimedIntegerLike /\ ~ClaimedStringLike /\ ClaimedFloatLike)
              => lastCall.outcome = Returned("float")

\* a column whose data type matches the integer and the string pattern was
\* classified integer
C19_Witness ==
    /\ Detected
    /\ column.dataType = Str("int_char")
    /\ column.columnName = Str("id")
    /\ ClaimedIntegerLike /\ ClaimedStringLike /\ ~ClaimedBit
    /\ lastCall.outcome = Returned("integer")

---------------------------------------------------------------------------
(* Tables: a client builds one database through the constructor of         *)
(* MySQLTable, addColumn and the loop of the source renderers, and asks    *)
(* for CREATE TABLE statements                                             *)

\* users.name again, with other metadata
VarcharRowAgain ==
    With(VarcharRow,
         "COLUMN_TYPE" :> Str("varchar(32)") @@ "IS_NULLABLE" :> Str("NO")
         @@ "COLUMN_DEFAULT" :> Null @@ "COLUMN_KEY" :> Str("")
         @@ "COLUMN_COMMENT" :> Str("") @@ "CHARACTER_SET_NAME" :> Null
         @@ "COLLATION_NAME" :> Null)

PostsIdRow == With(BaseRow, "TABLE_NAME" :> Str("posts"))

\* a row that fails validation
BadRow == With(VarcharRow, "COLUMN_NAME" :> Absent)

TableRows == {BaseRow, VarcharRow, VarcharRowAgain, PostsIdRow, BadRow}

OptionSet ==
    {NoOptions,
     [NoOptions EXCEPT !.engine = Str("InnoDB")],
     [NoOptions EXCEPT !.charset = Str("latin1"), !.collation = Str("latin1_bin")],
     [NoOptions EXCEPT !.comment = Str("it's")],
     [engine |-> Str("InnoDB"), charset |-> Str("latin1"), collation |-> Str(""),
      comment |-> Str("a\\b")]}

\* db.addTable(new MySQLTable(tableName, rows))
CreateTable(tableName, rows) ==
    \E built \in {NewTable(tableName, rows)} :
    /\ db' = IF built.outcome.threw THEN db ELSE addTable(db, built.table)
    /\ lastCall' = Call("new MySQLTable", tableName, NoOptions, rows, built.outcome)
    /\ UNCHANGED <<column, web>>

\* column = new MySQLTableColumn(); column.importFromRawData(rawMetadata);
\* table.addColumn(column), for the i-th table of the database
AddColumn(i, rawMetadata) ==
    \E imported \in {importFromRawData(NewColumn, rawMetadata)} :
    \E table \in {db.tables[i].value} :
    /\ db' = IF imported.outcome.threw THEN db
             ELSE [db EXCEPT !.tables[i].value = addColumn(table, imported.column)]
    /\ lastCall' = Call("addColumn", table.tableName, NoOptions, <<rawMetadata>>,
                        imported.outcome)
    /\ UNCHANGED <<column, web>>

\* (variant: the table of the row is created before the row is validated)
FoldRow_TableFirst(rawMetadata) ==
    \E imported \in {importFromRawData(NewColumn, rawMetadata)} :
    \E name \in {Get(rawMetadata, "TABLE_NAME")} :
    \E found \in {MapHas(db.tables, name)} :
    \E table \in {IF found THEN MapGet(db.tables, name) ELSE NewTable(name, <<>>).table} :
    \E added \in {IF found THEN db ELSE addTable(db, table)} :
    /\ db' = IF imported.outcome.threw THEN added
             ELSE [added EXCEPT !.tables =
                     MapSet(added.tables, name, addColumn(table, imported.column))]
    /\ lastCall' = Call("fold", name, NoOptions, <<rawMetadata>>, imported.outcome)
    /\ UNCHANGED <<column, web>>

\* one turn of the loop of convertColumnMetadataToJsCode and of
\* convertColumnMetadataToJsClassCode over the rows
FoldRow(rawMetadata) ==
    \E imported \in {importFromRawData(NewColumn, rawMetadata)} :
    IF imported.outcome.threw
    THEN /\ lastCall' = Call("fold", Undefined, NoOptions, <<rawMetadata>>, imported.outcome)
         /\ UNCHANGED <<column, db, web>>
    ELSE \E name \in {imported.column.tableName} :
         \E found \in {MapHas(db.tables, name)} :
         \E table \in {IF found THEN MapGet(db.tables, name) ELSE NewTable(name, <<>>).table} :
         \E added \in {IF found THEN db ELSE addTable(db, table)} :
         /\ db' = [added EXCEPT !.tables =
                        MapSet(added.tables, name, addColumn(table, imported.column))]
         /\ lastCall' = Call("fold", name, NoOptions, <<rawMetadata>>, imported.outcome)
         /\ UNCHANGED <<column, web>>

\* (variant: the call escapes the comments of the columns in place)
GenerateCreateTableQuery_EscapesInPlace(i, options) ==
    \E table \in {db.tables[i].value} :
    /\ lastCall' = Call("generateCreateTableQuery", table.tableName, options, <<>>,
                        generateCreateTableQuery(table, options))
    /\ db' = [db EXCEPT !.tables[i].value.columns =
                [j \in 1..Len(table.columns) |->
                    [table.columns[j] EXCEPT !.value.columnComment =
                        Str(escapeString(table.columns[j].value.columnComment.s))]]]
    /\ UNCHANGED <<column, web>>

\* table.generateCreateTableQuery(options), for the i-th table of the database
GenerateCreateTableQuery(i, options) ==
    \E table \in {db.tables[i].value} :
    /\ lastCall' = Call("generateCreateTableQuery", table.tableName, options, <<>>,
                        generateCreateTableQuery(table, options))
    /\ UNCHANGED <<column, db, web>>

Next ==
    \/ \E tableName \in {Str("users"), Str("posts")},
          rows \in {<<>>, <<BaseRow>>, <<VarcharRow, BaseRow>>, <<VarcharRow, VarcharRowAgain>>,
                    <<PostsIdRow, VarcharRowAgain>>, <<BaseRow, BadRow, VarcharRow>>} :
          CreateTable(tableName, rows)
    \/ \E i \in 1..Len(db.tables), rawMetadata \in TableRows : AddColumn(i, rawMetadata)
    \/ \E rawMetadata \in TableRows : FoldRow(rawMetadata)
    \/ \E i \in 1..Len(db.tables), options \in OptionSet : GenerateCreateTableQuery(i, options)

Spec == Init /\ [][Next]_vars

---------------------------------------------------------------------------
(* Statements: generateCreateTableQuery called, with each options value,   *)
(* on one table that the constructor built from a row list                 *)

\* a column c of table t without key, extra and comment
PlainRow ==
    With(BaseRow,
         "TABLE_NAME" :> Str("t") @@ "COLUMN_NAME" :> Str("c") @@ "COLUMN_KEY" :> Str("")
         @@ "EXTRA" :> Str("") @@ "NUMERIC_PRECISION" :> Null @@ "NUMERIC_SCALE" :> Null)

\* the rows of a table of several columns
CreatedRow ==
    With(PlainRow,
         "TABLE_NAME" :> Str("users") @@ "COLUMN_NAME" :> Str("created")
         @@ "ORDINAL_POSITION" :> Num(3) @@ "DATA_TYPE" :> Str("timestamp")
         @@ "COLUMN_TYPE" :> Str("timestamp") @@ "COLUMN_KEY" :> Str("MUL")
         @@ "COLUMN_DEFAULT" :> Str("CURRENT_TIMESTAMP") @@ "DATETIME_PRECISION" :> Num(0))

TenantRow ==
    With(BaseRow,
         "COLUMN_NAME" :> Str("tenant") @@ "ORDINAL_POSITION" :> Num(4)
         @@ "EXTRA" :> Str("") @@ "COLUMN_DEFAULT" :> Str("1")
         @@ "COLUMN_COMMENT" :> Str("owner"))

SeveralRows == {BaseRow, VarcharRow, CreatedRow, TenantRow}

\* a second column of key UNI
EmailRow ==
    With(VarcharRow,
         "COLUMN_NAME" :> Str("email") @@ "ORDINAL_POSITION" :> Num(5)
         @@ "COLUMN_DEFAULT" :> Null @@ "COLUMN_COMMENT" :> Str(""))

\* the row lists of the tables: no row; one row, for every data type and
\* every default, for every choice of the parts of a column definition, and
\* for each of SeveralRows; two and three rows of SeveralRows in every
\* order; two lists with a second UNI column; and two lists whose first
\* column has an empty character set name or an empty collation name
StatementBatches ==
    {<<>>, <<EmailRow, VarcharRow>>, <<VarcharRow, TenantRow, EmailRow, CreatedRow, BaseRow>>,
     <<With(VarcharRow, "CHARACTER_SET_NAME" :> Str("")), EmailRow>>,
     <<With(EmailRow, "COLLATION_NAME" :> Str("")), VarcharRow>>}
    \cup {<<With(PlainRow, "DATA_TYPE" :> Str(dataType) @@ "COLUMN_TYPE" :> Str(dataType)
                           @@ "COLUMN_DEFAULT" :> default)>> :
            dataType \in {"char", "varchar", "VARCHAR", "text", "enum", "set", "timestamp",
                          "datetime", "DATETIME", "blob", "binary", "int", "tinytext",
                          "decimal"},
            default \in {Null, Str("0"), Str("CURRENT_TIMESTAMP"), Str("current_timestamp"),
                         Str("it's"), Str("a\\b"), Str(""), Str("NULL")}}
    \cup {<<With(PlainRow, "IS_NULLABLE" :> Str(nullable) @@ "COLUMN_DEFAULT" :> default
                           @@ "EXTRA" :> Str(extra) @@ "COLUMN_COMMENT" :> Str(comment)
                           @@ "COLUMN_KEY" :> Str(key))>> :
            nullable \in {"YES", "NO"}, default \in {Null, Str("0")},
            extra \in {"", "auto_increment", "AUTO_INCREMENT", "on update CURRENT_TIMESTAMP"},
            comment \in {"", "it's", "a\\b"}, key \in {"PRI", "UNI", "MUL", ""}}
    \cup {<<r>> : r \in SeveralRows}
    \cup {p \in SeveralRows \X SeveralRows : p[1] # p[2]}
    \cup {p \in SeveralRows \X SeveralRows \X SeveralRows :
            p[1] # p[2] /\ p[1] # p[3] /\ p[2] # p[3]}

InitStatement ==
    /\ column = NewColumn
    /\ db \in {addTable(NewDatabase(Str("app")), NewTable(Str("users"), rows).table) :
                  rows \in StatementBatches}
    /\ lastCall = NoCall
    /\ WebAtStart

NextStatement ==
    \E i \in 1..Len(db.tables), options \in OptionSet : GenerateCreateTableQuery(i, options)

SpecStatement == InitStatement /\ [][NextStatement]_vars

---------------------------------------------------------------------------
(* Properties of the statements.  The returned text is taken apart again:  *)
(* its lines are the texts between "(" and ")" that ",\n  " separates.     *)

Generated == lastCall.op = "generateCreateTableQuery"

\* the table of the last call and its columns
CalledTable == MapGet(db.tables, lastCall.table)
CalledColumns == MapValues(CalledTable.columns)

\* the least index from `from` on at which pat stands in str, 0 if there is none
IndexOf(str, pat, from) ==
    LET hits == {i \in from..(Len(str) - Len(pat) + 1) : TextAt(str, i, pat)} IN
    IF hits = {} THEN 0 ELSE CHOOSE i \in hits : \A j \in hits : i <= j

RECURSIVE Split(_, _)
Split(str, sep) ==
    LET at == IndexOf(str, sep, 1) IN
    IF at = 0 THEN <<str>>
    ELSE <<SubSeq(str, 1, at - 1)>> \o Split(SubSeq(str, at + Len(sep), Len(str)), sep)

\* the lines between the opening and the closing parenthesis of a statement
StatementLines(text) ==
    LET open == IndexOf(text, " (\n  ", 1)
        close == IndexOf(text, "\n)", 1)
    IN Split(SubSeq(text, open + 5, close - 1), ",\n  ")

\* the escaping the specification describes: each single quote and each
\* backslash doubled
RECURSIVE ClaimedEscaped(_)
ClaimedEscaped(str) ==
    IF str = "" THEN ""
    ELSE LET c == SubSeq(str, 1, 1) IN
         (IF c = "'" THEN "''" ELSE IF c = "\\" THEN "\\\\" ELSE c)
         \o ClaimedEscaped(SubSeq(str, 2, Len(str)))

\* the default of a column with a non-null default, formatted as C8 says
ClaimedDefault(col) ==
    LET dataType == ToLowerCase(col.dataType.s)
        default == col.columnDefault.s
    IN CASE dataType \in {"char", "varchar", "text", "enum", "set"} ->
                "'" \o ClaimedEscaped(default) \o "'"
         [] dataType \in {"timestamp", "datetime"}
            /\ ToLowerCase(default) = "current_timestamp" -> "CURRENT_TIMESTAMP"
         [] dataType \in {"blob", "binary"} -> "x'" \o default \o "'"
         [] OTHER -> default

\* the parts of a column definition before and after its default
ClaimedHead(col) ==
    Backtick \o col.columnName.s \o Backtick \o " " \o col.columnType.s
    \o (IF col.isNullable.s = "YES" THEN "" ELSE " NOT NULL")
ClaimedRest(col) ==
    (IF Contains(col.extra.s, "auto_increment") THEN " AUTO_INCREMENT" ELSE "")
    \o (IF col.columnComment.s # ""
        THEN " COMMENT '" \o ClaimedEscaped(col.columnComment.s) \o "'" ELSE "")

\* the definition of a column as C9 says
ClaimedDefinition(col) ==
    ClaimedHead(col)
    \o (IF col.columnDefault.t # "null" THEN " DEFAULT " \o ClaimedDefault(col) ELSE "")
    \o ClaimedRest(col)

\* C7: generateCreateTableQuery raises the empty-table error, and returns no
\* text, on a table without columns, and only on such a table.
C7_EmptyTableError ==
    Generated =>
        IF Len(CalledTable.columns) = 0
        THEN /\ lastCall.outcome.threw
             /\ lastCall.outcome.error = "Table " \o lastCall.table.s \o " has no columns"
             /\ lastCall.outcome.value = ""
        ELSE ~lastCall.outcome.threw /\ lastCall.outcome.value # ""

\* the statement of a table without columns was refused
C7_Witness ==
    /\ Generated
    /\ Len(CalledTable.columns) = 0
    /\ lastCall.outcome.threw

\* C8: a non-null default is written after DEFAULT in the form its data type
\* asks for: quoted and escaped for char, varchar, text, enum, set; the bare
\* keyword for CURRENT_TIMESTAMP on timestamp and datetime; x'...' for blob
\* and binary; the raw text otherwise.
C8_DefaultByDataType ==
    (Generated /\ ~lastCall.outcome.threw) =>
        \A i \in 1..Len(CalledColumns) :
            LET col == CalledColumns[i]
                line == StatementLines(lastCall.outcome.value)[i]
            IN col.columnDefault.t # "null" =>
                  line = ClaimedHead(col) \o " DEFAULT " \o ClaimedDefault(col)
                         \o ClaimedRest(col)

\* the examples of C8
C8_Examples ==
    (Generated /\ ~lastCall.outcome.threw /\ Len(CalledColumns) = 1) =>
        LET col == CalledColumns[1]
            line == StatementLines(lastCall.outcome.value)[1]
        IN /\ (col.dataType = Str("timestamp") /\ col.columnDefault = Str("CURRENT_TIMESTAMP"))
                => /\ Contains(line, " DEFAULT CURRENT_TIMESTAMP")
                   /\ ~Contains(line, "'")
           /\ (col.dataType = Str("varchar") /\ col.columnDefault = Str("0")
               /\ col.columnComment = Str(""))
                => /\ Contains(line, " DEFAULT '0'")
                   /\ TextAt(line, Len(line) - 11, " DEFAULT '0'")

C8_DefaultFormat == C8_DefaultByDataType /\ C8_Examples

\* a datetime column with the default current_timestamp got the bare keyword
C8_Witness ==
    /\ Generated
    /\ Len(CalledColumns) = 1
    /\ CalledColumns[1].dataType = Str("DATETIME")
    /\ CalledColumns[1].columnDefault = Str("current_timestamp")
    /\ Contains(lastCall.outcome.value, " DEFAULT CURRENT_TIMESTAMP")

\* C9: the i-th line of the statement is the definition of the i-th column:
\* quoted name, column type, NOT NULL, DEFAULT, AUTO_INCREMENT, COMMENT, in
\* this order, each part present exactly when C9 says.
C9_DefinitionPerColumn ==
    (Generated /\ ~lastCall.outcome.threw) =>
        /\ Len(StatementLines(lastCall.outcome.value)) >= Len(CalledColumns)
        /\ \A i \in 1..Len(CalledColumns) :
              StatementLines(lastCall.outcome.value)[i] = ClaimedDefinition(CalledColumns[i])

\* the example of C9: the single column id, not nullable, PRI, auto_increment,
\* without default
C9_Example ==
    (Generated /\ ~lastCall.outcome.threw /\ Len(CalledColumns) = 1) =>
        LET col == CalledColumns[1]
            lines == StatementLines(lastCall.outcome.value)
        IN (/\ col.columnName = Str("id") /\ col.isNullable = Str("NO")
            /\ col.columnKey = Str("PRI") /\ col.extra = Str("auto_increment")
            /\ col.columnDefault = Null)
           => /\ Len(lines) = 2
              /\ Contains(lines[1], "AUTO_INCREMENT")
              /\ ~Contains(lines[1], "DEFAULT")
              /\ lines[2] = "PRIMARY KEY (" \o Backtick \o "id" \o Backtick \o ")"

C9_ColumnDefinitions == C9_DefinitionPerColumn /\ C9_Example

\* a statement of three columns was returned, the first of them id
C9_Witness ==
    /\ Generated
    /\ ~lastCall.outcome.threw
    /\ Len(CalledColumns) = 3
    /\ CalledColumns[1].columnName = Str("id")
    /\ CalledColumns[2].columnDefault # Null
    /\ Len(StatementLines(lastCall.outcome.value)) >= 4

\* the columns of the called table that have the key, in column order
ColumnsOfKey(key) == SelectSeq(CalledColumns, LAMBDA col : col.columnKey = Str(key))

Quoted(col) == Backtick \o col.columnName.s \o Backtick

\* the constraint clauses as the specification gives them
ClaimedPrimaryKey ==
    IF ColumnsOfKey("PRI") = <<>> THEN <<>>
    ELSE <<"PRIMARY KEY ("
           \o Join([i \in 1..Len(ColumnsOfKey("PRI")) |-> Quoted(ColumnsOfKey("PRI")[i])], ", ")
           \o ")">>

ClaimedUniqueKeys ==
    [i \in 1..Len(ColumnsOfKey("UNI")) |->
        "UNIQUE KEY " \o Backtick \o ColumnsOfKey("UNI")[i].columnName.s \o "_unique" \o Backtick
        \o " (" \o Quoted(ColumnsOfKey("UNI")[i]) \o ")"]

\* C20: in the statement the definitions of all columns come first, in
\* column order; then, if and only if a column has key PRI, one PRIMARY KEY
\* clause of every PRI column, quoted, in column order; then one UNIQUE KEY
\* clause for each UNI column in column order; columns of key MUL or of no
\* key add no clause.
C20_ClausesAfterColumns ==
    (Generated /\ ~lastCall.outcome.threw) =>
        \E lines \in {StatementLines(lastCall.outcome.value)} :
           /\ Len(lines) =
                 Len(CalledColumns) + Len(ClaimedPrimaryKey) + Len(ClaimedUniqueKeys)
           /\ \A i \in 1..Len(CalledColumns) :
                 StartsWith(lines[i], Quoted(CalledColumns[i]) \o " ")
           /\ SubSeq(lines, Len(CalledColumns) + 1, Len(lines))
                 = ClaimedPrimaryKey \o ClaimedUniqueKeys

\* a statement was returned for a table of two PRI columns, two UNI columns
\* and one MUL column, none of a class first
C20_Witness ==
    /\ Generated
    /\ ~lastCall.outcome.threw
    /\ Len(CalledColumns) = 5
    /\ Len(ColumnsOfKey("PRI")) = 2
    /\ Len(ColumnsOfKey("UNI")) = 2
    /\ Len(ColumnsOfKey("MUL")) = 1
    /\ CalledColumns[1].columnKey = Str("UNI")
    /\ Len(StatementLines(lastCall.outcome.value)) = 8

\* C10: a call of generateCreateTableQuery that follows a call on the same
\* table with the same options returns the same text.
C10_SameTextAgain ==
    (Generated /\ lastCall.previous # NotRepeated) => lastCall.outcome = lastCall.previous

\* the statement of a table with a quoted comment was asked for twice in a row
C10_Witness ==
    /\ Generated
    /\ lastCall.previous # NotRepeated
    /\ ~lastCall.outcome.threw
    /\ Len(CalledColumns) >= 2
    /\ \E i \in 1..Len(CalledColumns) : Contains(CalledColumns[i].columnComment.s, "'")
    /\ Truthy(lastCall.options.comment)

---------------------------------------------------------------------------
(* Properties of the tables                                                *)

Keys(entries) == {entries[i].key : i \in 1..Len(entries)}

\* the column a row turns into, field by field
SameAsRow(col, raw) == \A field \in FieldSet : col[field] = Get(raw, RawKeyOf[field])

\* in every table the names of the columns are pairwise different and each
\* column is stored under its name
DistinctNames ==
    \A t \in 1..Len(db.tables) :
        LET entries == db.tables[t].value.columns IN
        /\ Cardinality(Keys(entries)) = Len(entries)
        /\ \A i \in 1..Len(entries) : entries[i].key = entries[i].value.columnName

\* a column inserted by addColumn or by the row fold: a present name keeps the
\* count and takes the later column, a new name adds one column; the other
\* columns stay
InsertedOne ==
    (lastCall'.op \in {"addColumn", "fold"} /\ ~lastCall'.outcome.threw) =>
        LET raw == lastCall'.rows[1]
            name == Get(raw, "COLUMN_NAME")
            before == IF MapHas(db.tables, lastCall'.table)
                      THEN MapGet(db.tables, lastCall'.table).columns ELSE <<>>
            after == MapGet(db'.tables, lastCall'.table).columns
        IN /\ Len(after) = IF name \in Keys(before) THEN Len(before) ELSE Len(before) + 1
           /\ Keys(after) = Keys(before) \cup {name}
           /\ Len(after) = Cardinality(Keys(after))
           /\ SameAsRow(MapGet(after, name), raw)
           /\ \A other \in Keys(before) \ {name} : MapGet(after, other) = MapGet(before, other)

\* a table built by the constructor from a row list: as many columns as the
\* list has different names, each the column of the last row of its name
InsertedBatch ==
    (lastCall'.op = "new MySQLTable" /\ ~lastCall'.outcome.threw) =>
        LET rows == lastCall'.rows
            names == {Get(rows[i], "COLUMN_NAME") : i \in 1..Len(rows)}
            after == MapGet(db'.tables, lastCall'.table).columns
        IN /\ Len(after) = Cardinality(names)
           /\ Keys(after) = names
           /\ \A i \in 1..Len(rows) :
                 (\A j \in (i + 1)..Len(rows) :
                     Get(rows[j], "COLUMN_NAME") # Get(rows[i], "COLUMN_NAME"))
                 => SameAsRow(MapGet(after, Get(rows[i], "COLUMN_NAME")), rows[i])

\* C6: inserting a column whose name is present replaces the stored column by
\* the later one and keeps the column count, whether by the constructor, by
\* addColumn or by the row fold; the count is the number of different names
\* inserted.
C6_LastWriteWins == []DistinctNames /\ [][InsertedOne /\ InsertedBatch]_vars

\* addColumn replaced the column name, inserted before id, by its later row
C6_Witness ==
    /\ lastCall.op = "addColumn"
    /\ lastCall.rows = <<VarcharRowAgain>>
    /\ ~lastCall.outcome.threw
    /\ Len(CalledTable.columns) = 2
    /\ CalledTable.columns[1].key = Str("name")
    /\ CalledTable.columns[2].key = Str("id")
    /\ CalledTable.columns[1].value.columnType = Str("varchar(32)")

\* C11: every column held by a table has the table's name in its tableName
\* field.
C11_TableNameMatches ==
    \A t \in 1..Len(db.tables) :
        LET table == db.tables[t].value IN
        \A i \in 1..Len(table.columns) :
            table.columns[i].value.tableName = table.tableName

\* C12: a column that validation produced has an ordinalPosition of 1 or
\* more, and a row whose ORDINAL_POSITION is a number below 1 is rejected.
C12_OrdinalPositionPositive ==
    Imported =>
        LET raw == lastCall.rows[1] IN
        /\ ~lastCall.outcome.threw =>
              column.ordinalPosition.t = "number" /\ column.ordinalPosition.n >= 1
        /\ (raw.t = "object" /\ Get(raw, "ORDINAL_POSITION").t = "number"
            /\ Get(raw, "ORDINAL_POSITION").n < 1) => lastCall.outcome.threw

---------------------------------------------------------------------------
(* Columns built by the constructor: a client makes column objects with    *)
(* new MySQLTableColumn(data) and adds them to the table users             *)

\* new MySQLTableColumn(data): without data every field stays undefined,
\* with data every field is assigned from the property of its name
MySQLTableColumn(data) ==
    IF data.t # "object" THEN NewColumn
    ELSE [f \in FieldSet |->
            IF data.fields[f].t = "absent" THEN Undefined ELSE data.fields[f]]

\* the data given to the constructor: none, or a ColumnMetadataParams
\* object, that of the column id of users with three fields changed
ConstructorData ==
    {Undefined}
    \cup {[t |-> "object",
           fields |-> [importFromRawData(NewColumn, BaseRow).column
                          EXCEPT !.columnName = columnName,
                                 !.isNullable = isNullable,
                                 !.columnKey = columnKey]] :
            columnName \in {Str("id"), Str("x")},
            isNullable \in {Str("NO"), Str("maybe"), Absent},
            columnKey \in {Str("PRI"), Str("FOO")}}

InitConstruct ==
    /\ column = NewColumn
    /\ db = addTable(NewDatabase(Str("app")), NewTable(Str("users"), <<>>).table)
    /\ lastCall = NoCall
    /\ WebAtStart

\* column = new MySQLTableColumn(data)
ConstructColumn(data) ==
    /\ column' = MySQLTableColumn(data)
    /\ lastCall' = Call("new MySQLTableColumn", Undefined, NoOptions, <<data>>,
                        Returned("undefined"))
    /\ UNCHANGED <<db, web>>

\* table.addColumn(column), for the i-th table of the database and the
\* column object the client holds
AddConstructedColumn(i) ==
    \E table \in {db.tables[i].value} :
    /\ db' = [db EXCEPT !.tables[i].value = addColumn(table, column)]
    /\ lastCall' = Call("addColumn(column)", table.tableName, NoOptions, <<>>,
                        Returned("undefined"))
    /\ UNCHANGED <<column, web>>

NextConstruct ==
    \/ \E data \in ConstructorData : ConstructColumn(data)
    \/ \E i \in 1..Len(db.tables) : AddConstructedColumn(i)

SpecConstruct == InitConstruct /\ [][NextConstruct]_vars

\* C13: every column stored in a table has isNullable "YES" or "NO" and
\* columnKey "PRI", "UNI", "MUL" or "", since only validated rows fill a column.
C13_StoredColumnsValidated ==
    \A t \in 1..Len(db.tables) :
        LET entries == db.tables[t].value.columns IN
        \A i \in 1..Len(entries) :
            /\ entries[i].value.isNullable \in {Str("YES"), Str("NO")}
            /\ entries[i].value.columnKey \in {Str("PRI"), Str("UNI"), Str("MUL"), Str("")}

---------------------------------------------------------------------------
(* The source renderers convertColumnMetadataToJsCode and                  *)
(* convertColumnMetadataToJsClassCode                                      *)

\* the first element of output: the typedef comment of ColumnMetadataParams
TypedefText ==
    "\n"
    \o "/**\n"
    \o " * @typedef {Object} ColumnMetadataParams\n"
    \o " * @property {string} tableCatalog - Table catalog (usually 'def')\n"
    \o " * @property {string} tableSchema - Database/schema name\n"
    \o " * @property {string} tableName - Table name\n"
    \o " * @property {string} columnName - Column name\n"
    \o " * @property {number} ordinalPosition - Position in table (1-based)\n"
    \o " * @property {string|null} columnDefault - Default value\n"
    \o " * @property {'YES'|'NO'} isNullable - Nullable status\n"
    \o " * @property {string} dataType - Data type (e.g. 'int', 'varchar')\n"
    \o " * @property {number|null} characterMaximumLength - Max length for string types (characters)\n"
    \o " * @property {number|null} characterOctetLength - Max length for string types (bytes)\n"
    \o " * @property {number|null} numericPrecision - Precision for numeric types\n"
    \o " * @property {number|null} numericScale - Scale for numeric types\n"
    \o " * @property {number|null} datetimePrecision - Precision for datetime types\n"
    \o " * @property {string|null} characterSetName - Character set for string types\n"
    \o " * @property {string|null} collationName - Collation for string types\n"
    \o " * @property {string} columnType - Full column type (e.g. 'int(11) unsigned')\n"
    \o " * @property {'PRI'|'UNI'|'MUL'|''} columnKey - Key type (primary/unique/etc.)\n"
    \o " * @property {string} extra - Extra information (e.g. 'auto_increment')\n"
    \o " * @property {string} privileges - Column privileges\n"
    \o " * @property {string} columnComment - Column comment\n"
    \o " * @property {'NEVER'|'ALWAYS'|string} isGenerated - Generation status\n"
    \o " * @property {string|null} generationExpression - Generation expression\n"
    \o " */\n"
    \o "\n"

\* JSON.stringify that would leave quotes and backslashes as they are
JSONStringify_NoEscape(val) ==
    CASE val.t = "string" -> "\"" \o val.s \o "\""
      [] val.t = "number" -> ToString(val.n)
      [] val.t = "boolean" -> IF val.n = 1 THEN "true" ELSE "false"
      [] val.t = "null" -> "null"
      [] OTHER -> "undefined"

\* JSON.stringify(value) of a field value; the texts of the model hold no
\* control characters but the line feed
JSONStringify(val) ==
    CASE val.t = "string" ->
            "\"" \o ReplaceAll(ReplaceAll(ReplaceAll(val.s, "\\", "\\\\"), "\"", "\\\""),
                               "\n", "\\n") \o "\""
      [] val.t = "number" -> ToString(val.n)
      [] val.t = "boolean" -> IF val.n = 1 THEN "true" ELSE "false"
      [] val.t = "null" -> "null"
      [] OTHER -> "undefined"

\* column.toJSON(): the own fields of the column in the order of their
\* declaration, as a sequence of [key, value]
toJSON(col) == [i \in 1..Len(Fields) |-> [key |-> Fields[i], value |-> col[Fields[i]]]]

\* upperCaseFirstLetter(str)
upperCaseFirstLetter(str) ==
    IF str = "" THEN "" ELSE ToUpperCase(SubSeq(str, 1, 1)) \o SubSeq(str, 2, Len(str))

\* the loop over data of both renderers: the outcome and the database built;
\* the first row that fails validation ends the renderer with its error.
\* (CHOOSE over a one-element set names a value that is computed once.)
RECURSIVE FoldBatch(_, _)
FoldBatch(database, rows) ==
    IF rows = <<>> THEN [outcome |-> Returned("undefined"), database |-> database]
    ELSE CHOOSE folded \in
           {IF imported.outcome.threw
            THEN [outcome |-> imported.outcome, database |-> database]
            ELSE LET name == imported.column.tableName
                     found == MapHas(database.tables, name)
                     table == IF found THEN MapGet(database.tables, name)
                              ELSE NewTable(name, <<>>).table
                     added == IF found THEN database ELSE addTable(database, table)
                 IN CHOOSE rest \in
                      {FoldBatch(next, tail) :
                         next \in {[added EXCEPT !.tables =
                                      MapSet(added.tables, name,
                                             addColumn(table, imported.column))]},
                         tail \in {Tail(rows)}} : TRUE
            : imported \in {importFromRawData(NewColumn, Head(rows))}} : TRUE

\* concat of a sequence of sequences
RECURSIVE Flatten(_)
Flatten(seqs) == IF seqs = <<>> THEN <<>> ELSE Head(seqs) \o Flatten(Tail(seqs))

\* the lines pushed for one column by convertColumnMetadataToJsCode
JsCodeColumnLines(col) ==
    <<"    " \o TemplateText(col.columnName) \o ": {">>
    \o [i \in 1..Len(Fields) |->
          "        " \o toJSON(col)[i].key \o ": " \o JSONStringify(toJSON(col)[i].value) \o ","]
    \o <<"    },\n">>

\* the lines pushed for one table by convertColumnMetadataToJsCode
JsCodeTableLines(table) ==
    CHOOSE lines \in
      {<<"export const " \o TemplateText(table.tableName) \o " = {">>
       \o Flatten(perColumn) \o <<"};">> :
         perColumn \in {[i \in 1..Len(getColumns(table)) |->
                           JsCodeColumnLines(getColumns(table)[i])]}} : TRUE

\* output.join("\n") for the first element and the lines of the tables
JoinOutput(first, perTable) ==
    CHOOSE text \in {Join(output, "\n") : output \in {<<first>> \o Flatten(perTable)}} : TRUE

\* (variant: the empty list is not told apart)
convertColumnMetadataToJsCode_NoGuard(data) ==
    CHOOSE outcome \in
      {IF folded.outcome.threw THEN folded.outcome
       ELSE CHOOSE returned \in
              {Returned(JoinOutput(TypedefText, perTable)) :
                 perTable \in {[t \in 1..Len(folded.database.tables) |->
                                  JsCodeTableLines(folded.database.tables[t].value)]}} : TRUE
       : folded \in {FoldBatch(NewDatabase(Undefined), data)}} : TRUE

convertColumnMetadataToJsCode(data) ==
    IF Len(data) = 0 THEN Returned("")
    ELSE IF Head(data).t # "object" THEN Threw("TypeError")
    ELSE CHOOSE outcome \in
      {IF folded.outcome.threw THEN folded.outcome
       ELSE CHOOSE returned \in
              {Returned(JoinOutput(TypedefText, perTable)) :
                 perTable \in {[t \in 1..Len(folded.database.tables) |->
                                  JsCodeTableLines(folded.database.tables[t].value)]}} : TRUE
       : folded \in {FoldBatch(NewDatabase(Get(Head(data), "TABLE_SCHEMA")), data)}} : TRUE

\* the lines pushed for one table by convertColumnMetadataToJsClassCode; the
\* columns are validated, so hasStringDataType does not throw
JsClassTableLines(table) ==
    LET isString(col) == hasStringDataType(col).value = "true" IN
    CHOOSE lines \in
      {<<"export class " \o upperCaseFirstLetter(TemplateText(table.tableName)) \o "Item {">>
       \o Flatten([i \in 1..Len(columns) |->
             <<"    /** @type {" \o (IF isString(columns[i]) THEN "string" ELSE "number")
                  \o "} */",
               "    " \o TemplateText(columns[i].columnName) \o ";">>])
       \o <<"    constructor(data) {">>
       \o [i \in 1..Len(columns) |->
             "        this." \o TemplateText(columns[i].columnName) \o " = "
             \o (IF isString(columns[i]) THEN "String" ELSE "Number")
             \o "(data." \o TemplateText(columns[i].columnName) \o ");"]
       \o <<"    }", "};">> :
         columns \in {getColumns(table)}} : TRUE

convertColumnMetadataToJsClassCode(data) ==
    IF Len(data) = 0 THEN Returned("")
    ELSE IF Head(data).t # "object" THEN Threw("TypeError")
    ELSE CHOOSE outcome \in
      {IF folded.outcome.threw THEN folded.outcome
       ELSE CHOOSE returned \in
              {Returned(JoinOutput("", perTable)) :
                 perTable \in {[t \in 1..Len(folded.database.tables) |->
                                  JsClassTableLines(folded.database.tables[t].value)]}} : TRUE
       : folded \in {FoldBatch(NewDatabase(Get(Head(data), "TABLE_SCHEMA")), data)}} : TRUE

\* a row whose comment and default hold a double quote and a backslash
QuotedRow ==
    With(VarcharRow,
         "COLUMN_NAME" :> Str("title") @@ "ORDINAL_POSITION" :> Num(3)
         @@ "COLUMN_KEY" :> Str("") @@ "COLUMN_DEFAULT" :> Str("a\"b")
         @@ "COLUMN_COMMENT" :> Str("c:\\d"))

RenderRows ==
    {BaseRow, VarcharRow, VarcharRowAgain, PostsIdRow, CreatedRow, QuotedRow, BadRow,
     [t |-> "null", fields |-> BaseFields]}

\* the row lists given to the renderers: among them lists in which the rows
\* of two tables alternate, the ordinal positions fall, and a column comes
\* twice, and lists of three columns of table t with fifteen data types
RenderBatches ==
    {<<>>, <<BaseRow, VarcharRow, CreatedRow>>, <<BaseRow, VarcharRow, QuotedRow>>,
     <<PostsIdRow, BaseRow, VarcharRow>>,
     <<With(QuotedRow, "TABLE_NAME" :> Str("posts")), VarcharRow, PostsIdRow, BaseRow>>,
     <<CreatedRow, PostsIdRow, VarcharRow, BaseRow, VarcharRowAgain>>}
    \cup {[i \in 1..3 |->
              With(PlainRow, "COLUMN_NAME" :> Str("c" \o ToString(i))
                             @@ "DATA_TYPE" :> Str(dataTypes[i])
                             @@ "COLUMN_TYPE" :> Str(dataTypes[i]))] :
            dataTypes \in {<<"char", "datetime", "VARCHAR">>, <<"bigint", "text", "enum">>,
                           <<"longtext", "decimal", "blob">>, <<"tinytext", "json", "nchar">>,
                           <<"", "mediumtext", "tinyint">>}}
    \cup {<<r>> : r \in RenderRows}
    \cup (RenderRows \X RenderRows)

\* convertColumnMetadataToJsCode(data)
ConvertToJsCode(data) ==
    /\ lastCall' = Call("convertColumnMetadataToJsCode", Undefined, NoOptions, data,
                        convertColumnMetadataToJsCode(data))
    /\ UNCHANGED <<column, db, web>>

\* convertColumnMetadataToJsClassCode(data)
ConvertToJsClassCode(data) ==
    /\ lastCall' = Call("convertColumnMetadataToJsClassCode", Undefined, NoOptions, data,
                        convertColumnMetadataToJsClassCode(data))
    /\ UNCHANGED <<column, db, web>>

NextRender ==
    \/ \E data \in RenderBatches : ConvertToJsCode(data)
    \/ \E data \in RenderBatches : ConvertToJsClassCode(data)

SpecRender == Init /\ [][NextRender]_vars

---------------------------------------------------------------------------
(* Properties of the source renderers                                      *)

Rendered ==
    lastCall.op \in {"convertColumnMetadataToJsCode", "convertColumnMetadataToJsClassCode"}

AllValid(rows) == \A i \in 1..Len(rows) : ~assertColumnMetadataRaw(rows[i]).threw

\* C14: both source renderers return the empty string, without raising, for
\* an empty row list, and a non-empty text for a non-empty list of valid rows.
C14_EmptyListEmptyText ==
    Rendered =>
        /\ Len(lastCall.rows) = 0 => lastCall.outcome = Returned("")
        /\ (Len(lastCall.rows) > 0 /\ AllValid(lastCall.rows)) =>
              ~lastCall.outcome.threw /\ lastCall.outcome.value # ""

\* the class renderer was given the empty list after the object renderer
\* returned a text for two rows
C14_Witness ==
    /\ lastCall.op = "convertColumnMetadataToJsClassCode"
    /\ lastCall.rows = <<>>
    /\ lastCall.outcome = Returned("")

---------------------------------------------------------------------------
(* The server (server.js): POST /api and the two methods behind it.  The   *)
(* MySQL server is the environment: it serves a call ("ok"), refuses the   *)
(* connection ("connectFails"), or accepts it and fails the query          *)
(* ("queryFails").                                                         *)

Array(rows) == [t |-> "array", rows |-> rows]

\* the databases of the MySQL server, as SHOW DATABASES lists them
DatabaseNames == <<"app", "shop">>

\* INFORMATION_SCHEMA.COLUMNS of a database, in the order of the query:
\* ORDER BY table_name, ordinal_position.  app has the tables posts, tags
\* and users, shop the table items of three columns.
CatalogRows(database_name) ==
    CASE database_name = Str("app") ->
            <<PostsIdRow, With(BaseRow, "TABLE_NAME" :> Str("tags")), BaseRow, VarcharRow>>
      [] database_name = Str("shop") ->
            <<With(VarcharRow,
                   "TABLE_SCHEMA" :> Str("shop") @@ "TABLE_NAME" :> Str("items")
                   @@ "COLUMN_NAME" :> Str("sku") @@ "ORDINAL_POSITION" :> Num(1)),
              With(QuotedRow,
                   "TABLE_SCHEMA" :> Str("shop") @@ "TABLE_NAME" :> Str("items")
                   @@ "ORDINAL_POSITION" :> Num(2)),
              With(CreatedRow, "TABLE_SCHEMA" :> Str("shop") @@ "TABLE_NAME" :> Str("items"))>>
      [] OTHER -> <<>>

\* err.message of the error a behaviour raises
MessageOf(behaviour) ==
    IF behaviour = "connectFails" THEN "connect ECONNREFUSED" ELSE "Query failed"

\* The result of an api function: the object it returns, whether its try
\* block threw, and the connections it opened and ended.
ApiResult(result, error, threw, opened, ended) ==
    [response |-> [result |-> result, error |-> error],
     threw |-> threw, opened |-> opened, ended |-> ended]

\* (variant: the catch block answers with an empty list)
api_database_list_EmptyOnError(params, behaviour) ==
    IF behaviour = "connectFails"
    THEN ApiResult(Array(<<>>), Bool(0), TRUE, 0, 0)
    ELSE IF behaviour = "queryFails"
    THEN ApiResult(Array(<<>>), Bool(0), TRUE, 1, 0)
    ELSE ApiResult(Array([i \in 1..Len(DatabaseNames) |-> Str(DatabaseNames[i])]), Bool(0),
                   FALSE, 1, 1)

api_database_list(params, behaviour) ==
    IF behaviour = "connectFails"
    THEN ApiResult(Null, Str(MessageOf(behaviour)), TRUE, 0, 0)
    ELSE IF behaviour = "queryFails"
    THEN ApiResult(Null, Str(MessageOf(behaviour)), TRUE, 1, 0)
    ELSE ApiResult(Array([i \in 1..Len(DatabaseNames) |-> Str(DatabaseNames[i])]), Bool(0),
                   FALSE, 1, 1)

\* params is NoParams or Params(database_name)
api_tables_list(params, behaviour) ==
    IF behaviour = "connectFails"
    THEN ApiResult(Null, Str(MessageOf(behaviour)), TRUE, 0, 0)
    ELSE IF params.t # "object"
    THEN ApiResult(Null, Str("Cannot read properties of undefined (reading 'database_name')"),
                   TRUE, 1, 0)
    ELSE IF behaviour = "queryFails"
    THEN ApiResult(Null, Str(MessageOf(behaviour)), TRUE, 1, 0)
    ELSE ApiResult(Array(CatalogRows(params.database_name)), Bool(0), FALSE, 1, 1)

NoParams == [t |-> "undefined", database_name |-> Absent]
Params(database_name) == [t |-> "object", database_name |-> database_name]
Body(method, params) == [t |-> "object", method |-> method, params |-> params]

\* The handler of POST /api: the object given to res.json as the client
\* parses it (a property that is undefined is not sent), and the result of
\* the api function called, if one was.
NoApi == ApiResult(Null, Bool(0), FALSE, 0, 0)

PostApi(body, behaviour) ==
    IF body.t # "object"
    THEN [json |-> [result |-> Null,
                    error |-> Str("Cannot destructure property 'method' of 'data'"),
                    method |-> Absent],
          api |-> NoApi, called |-> FALSE]
    ELSE LET method == IF body.method.t = "undefined" THEN Absent ELSE body.method IN
         IF body.method = Str("tables.list")
         THEN \* one evaluation of the api function
              CHOOSE answer \in
                {[json |-> [result |-> api.response.result, error |-> api.response.error,
                            method |-> method],
                  api |-> api, called |-> TRUE] :
                    api \in {api_tables_list(body.params, behaviour)}} : TRUE
         ELSE IF body.method = Str("database.list")
         THEN CHOOSE answer \in
                {[json |-> [result |-> api.response.result, error |-> api.response.error,
                            method |-> method],
                  api |-> api, called |-> TRUE] :
                    api \in {api_database_list(body.params, behaviour)}} : TRUE
         ELSE [json |-> [error |-> Str("Unknown method"), result |-> Null, method |-> method],
               api |-> NoApi, called |-> FALSE]


\* the most connections the model lets stay open, and the most messages it
\* lets be in flight
MaxOpen == 1
MaxInFlight == 2

Request(id, body) == [kind |-> "request", id |-> id, body |-> body, json |-> NoApi.response]
Response(id, body, json) == [kind |-> "response", id |-> id, body |-> body, json |-> json]

\* the identifiers no message in flight bears
FreeIds == {id \in 1..MaxInFlight : \A m \in net : m.id # id}

\* The server takes a request and answers it.  lastCall holds the body, the
\* behaviour met and the identifier of the request, and the outcome of the
\* api function: whether its try block threw.
ServePost(msg, behaviour) ==
    /\ msg \in net
    /\ msg.kind = "request"
    /\ \E answer \in {PostApi(msg.body, behaviour)} :
          /\ server.open + (answer.api.opened - answer.api.ended) <= MaxOpen
          /\ net' = (net \ {msg}) \cup {Response(msg.id, msg.body, answer.json)}
          /\ server' = [server EXCEPT !.open = @ + (answer.api.opened - answer.api.ended)]
          /\ lastCall' = Call("POST /api", Undefined, NoOptions,
                              <<msg.body, behaviour, msg.id>>,
                              IF answer.api.threw THEN Threw(answer.json.error.s)
                              ELSE Returned(""))
    /\ UNCHANGED <<column, db, page>>


---------------------------------------------------------------------------
(* The server alone: clients post any body and take the answers            *)

\* a client sends a request
ClientPost(body) ==
    /\ \E id \in FreeIds : net' = net \cup {Request(id, body)}
    /\ UNCHANGED <<column, db, lastCall, page, server>>

\* a client takes the answer to its request
ClientReceive(msg) ==
    /\ msg \in net
    /\ msg.kind = "response"
    /\ net' = net \ {msg}
    /\ UNCHANGED <<column, db, lastCall, page, server>>

NextServer ==
    \/ \E body \in {[t |-> "undefined", method |-> Absent, params |-> Absent],
                    Body(Str("tables.list"), Params(Str("app"))),
                    Body(Str("tables.list"), NoParams),
                    Body(Str("database.list"), Params(Str("1"))),
                    Body(Str("drop"), Params(Str("app"))),
                    Body(Undefined, NoParams)} :
          ClientPost(body)
    \/ \E msg \in net, behaviour \in {"ok", "connectFails", "queryFails"} :
          ServePost(msg, behaviour)
    \/ \E msg \in net : ClientReceive(msg)

SpecServer == Init /\ [][NextServer]_vars

\* the two shapes of a response
SuccessShaped(json) == json.error = Bool(0) /\ json.result.t \notin {"null", "undefined"}
FailureShaped(json) ==
    json.result.t = "null" /\ json.error.t = "string" /\ json.error.s # ""

---------------------------------------------------------------------------
(* The browser page (index.js)                                             *)

\* escapeHtml(unsafe)
escapeHtml(unsafe) ==
    ReplaceAll(ReplaceAll(ReplaceAll(ReplaceAll(ReplaceAll(unsafe,
        "&", "&amp;"), "<", "&lt;"), ">", "&gt;"), "\"", "&quot;"), "'", "&#039;")

\* the text the browser makes of an attribute value or a text node written
\* into innerHTML: the character references are read back
HtmlText(html) ==
    ReplaceAll(ReplaceAll(ReplaceAll(ReplaceAll(ReplaceAll(html,
        "&lt;", "<"), "&gt;", ">"), "&quot;", "\""), "&#039;", "'"), "&amp;", "&")

\* getTablesNamesFromDatabaseSchema(table_schema): the TABLE_NAME values in
\* the order a Set keeps them, that of their first insertion
RECURSIVE TableNamesFrom(_, _)
TableNamesFrom(rows, names) ==
    IF rows = <<>> THEN names
    ELSE LET name == Get(Head(rows), "TABLE_NAME") IN
         TableNamesFrom(Tail(rows),
                        IF \E i \in 1..Len(names) : names[i] = name THEN names
                        ELSE Append(names, name))

getTablesNamesFromDatabaseSchema(table_schema) == TableNamesFrom(table_schema.rows, <<>>)

\* createTableList(list) written into table_list_area: one checked checkbox
\* for each name, its value the name
createTableList(list) ==
    [i \in 1..Len(list) |-> [value |-> HtmlText(escapeHtml(list[i].s)), checked |-> TRUE]]

\* createDataBaseList(list) written into database_list_area: one item for
\* each name, none of them active
createDataBaseList(list) == [i \in 1..Len(list) |-> HtmlText(escapeHtml(list[i].s))]

\* getCheckedCheckboxes()
RECURSIVE getCheckedCheckboxes(_)
getCheckedCheckboxes(checklist) ==
    IF checklist = <<>> THEN <<>>
    ELSE (IF Head(checklist).checked THEN <<Head(checklist).value>> ELSE <<>>)
         \o getCheckedCheckboxes(Tail(checklist))

\* the loop of the render handler: the rows of table_schema whose TABLE_NAME
\* is truthy and among table_names
RECURSIVE SelectRows(_, _)
SelectRows(rows, table_names) ==
    IF rows = <<>> THEN <<>>
    ELSE LET name == Get(Head(rows), "TABLE_NAME") IN
         (IF Truthy(name) /\ \E i \in 1..Len(table_names) : Str(table_names[i]) = name
          THEN <<Head(rows)>> ELSE <<>>)
         \o SelectRows(Tail(rows), table_names)

\* JSON.stringify(row, null, "  ") of a row inside an array: the keys the
\* row has, in their order, one to a line
RowJson(row) ==
    CHOOSE text \in
      {IF members = <<>> THEN "{}"
       ELSE "{\n    " \o Join(members, ",\n    ") \o "\n  }" :
         members \in
           {Flatten([i \in 1..Len(RawKeys) |->
               IF Get(row, RawKeys[i]).t = "undefined" THEN <<>>
               ELSE <<"\"" \o RawKeys[i] \o "\": " \o JSONStringify(Get(row, RawKeys[i]))>>])}}
      : TRUE

\* JSON.stringify(result_schema, null, "  ")
StringifyPretty(rows) ==
    IF rows = <<>> THEN "[]"
    ELSE CHOOSE text \in
           {"[\n  " \o Join(items, ",\n  ") \o "\n]" :
              items \in {[i \in 1..Len(rows) |-> RowJson(rows[i])]}} : TRUE


\* table_schema after loadDatabaseSchema() returned nothing
NoSchema == [t |-> "undefined", rows |-> <<>>]

\* is_response_ok(response)
is_response_ok(json) == ~Truthy(json.error)

\* what follows `await loadDatabaseSchema()` in both handlers that call it,
\* for the value it returned: table_schema is assigned, and the table list
\* is rebuilt unless getTablesNamesFromDatabaseSchema throws on undefined
SchemaLoaded(op, shown, schema) ==
    IF schema.t # "array"
    THEN /\ page' = [shown EXCEPT !.table_schema = schema]
         /\ lastCall' = Call(op, Undefined, NoOptions, <<>>, Threw("TypeError"))
    ELSE /\ page' = [shown EXCEPT !.table_schema = schema,
                                  !.checklist =
                                     createTableList(getTablesNamesFromDatabaseSchema(schema))]
         /\ lastCall' = Call(op, Undefined, NoOptions, <<>>, Returned("undefined"))

\* click on reload_db_list_button, up to its await
ReloadDbListClick ==
    /\ \E id \in FreeIds :
          net' = net \cup {Request(id, Body(Str("database.list"), Params(Absent)))}
    /\ UNCHANGED <<column, db, lastCall, page, server>>

\* the rest of that handler, when the response is there
DatabaseListArrives(msg) ==
    /\ msg \in net
    /\ msg.kind = "response"
    /\ msg.body.method = Str("database.list")
    /\ net' = net \ {msg}
    /\ page' = IF is_response_ok(msg.json)
               THEN [page EXCEPT !.databases = createDataBaseList(msg.json.result.rows),
                                 !.active = 0]
               ELSE [page EXCEPT !.databases = <<>>, !.active = 0]
    /\ UNCHANGED <<column, db, lastCall, server>>

\* click on the i-th item of the database list, up to its await; a click on
\* the active item returns at once and is left out
DatabaseClick(i) ==
    /\ i \in 1..Len(page.databases)
    /\ i # page.active
    /\ \E shown \in {[page EXCEPT !.active = i, !.output = ""]} :
          IF page.databases[i] \in {"", "0"}
          THEN SchemaLoaded("database click", shown, NoSchema) /\ UNCHANGED net
          ELSE /\ \E id \in FreeIds :
                     net' = net \cup {Request(id, Body(Str("tables.list"),
                                                       Params(Str(page.databases[i]))))}
               /\ page' = shown
               /\ lastCall' = Call("database click", Undefined, NoOptions, <<>>,
                                   Returned("pending"))
    /\ UNCHANGED <<column, db, server>>

\* click on reload_table_list_button, up to its await
ReloadTableListClick ==
    /\ IF page.active = 0 \/ page.databases[page.active] \in {"", "0"}
       THEN SchemaLoaded("reload_table_list_button.click", page, NoSchema) /\ UNCHANGED net
       ELSE /\ \E id \in FreeIds :
                  net' = net \cup {Request(id, Body(Str("tables.list"),
                                                    Params(Str(page.databases[page.active]))))}
            /\ lastCall' = Call("reload_table_list_button.click", Undefined, NoOptions, <<>>,
                                Returned("pending"))
            /\ UNCHANGED page
    /\ UNCHANGED <<column, db, server>>

\* the rest of loadDatabaseSchema and of the handler that awaits it, when
\* the response is there
SchemaArrives(msg) ==
    /\ msg \in net
    /\ msg.kind = "response"
    /\ msg.body.method = Str("tables.list")
    /\ net' = net \ {msg}
    /\ IF is_response_ok(msg.json)
       THEN SchemaLoaded("tables.list response", page, msg.json.result)
       ELSE SchemaLoaded("tables.list response", [page EXCEPT !.checklist = <<>>], NoSchema)
    /\ UNCHANGED <<column, db, server>>

\* the request does not reach the server: status 0
NetworkFails(msg) ==
    /\ msg \in net
    /\ msg.kind = "request"
    /\ net' = (net \ {msg})
              \cup {Response(msg.id, msg.body, [result |-> Bool(0), error |-> Str("No Internet")])}
    /\ UNCHANGED <<column, db, lastCall, page, server>>

\* click on check_all_button or uncheck_all_button
CheckAll(checked) ==
    /\ page' = [page EXCEPT !.checklist =
                  [i \in 1..Len(page.checklist) |-> [page.checklist[i] EXCEPT !.checked = checked]]]
    /\ UNCHANGED <<column, db, lastCall, net, server>>

\* the user checks or unchecks the i-th checkbox
ToggleCheckbox(i) ==
    /\ i \in 1..Len(page.checklist)
    /\ page' = [page EXCEPT !.checklist[i].checked = ~@]
    /\ UNCHANGED <<column, db, lastCall, net, server>>

\* click on render_button; lastCall keeps the names that were checked
RenderClick ==
    /\ IF page.table_schema.t # "array"
       THEN /\ lastCall' = Call("render_button.click", Undefined, NoOptions, <<>>,
                                Threw("TypeError"))
            /\ UNCHANGED page
       ELSE \E table_names \in {getCheckedCheckboxes(page.checklist)} :
            /\ page' = [page EXCEPT !.output =
                          StringifyPretty(SelectRows(page.table_schema.rows, table_names))]
            /\ lastCall' = Call("render_button.click", Undefined, NoOptions, table_names,
                                Returned("undefined"))
    /\ UNCHANGED <<column, db, net, server>>

NextPage ==
    \/ ReloadDbListClick
    \/ \E msg \in net : DatabaseListArrives(msg)
    \/ \E i \in 1..Len(page.databases) : DatabaseClick(i)
    \/ ReloadTableListClick
    \/ \E msg \in net : SchemaArrives(msg)
    \/ \E msg \in net : NetworkFails(msg)
    \/ \E msg \in net, behaviour \in {"ok", "connectFails", "queryFails"} :
          ServePost(msg, behaviour)
    \/ \E checked \in BOOLEAN : CheckAll(checked)
    \/ RenderClick

SpecPage == Init /\ [][NextPage]_vars


---------------------------------------------------------------------------
(* The raw render: the page after the table list of a database arrived;    *)
(* the user checks and unchecks tables and clicks render                   *)

\* the page after the database list arrived, the i-th database was clicked
\* and its columns arrived
InitRawRender ==
    /\ column = NewColumn
    /\ db = NewDatabase(Str("app"))
    /\ lastCall = NoCall
    /\ page \in
          {[NewPage EXCEPT
               !.databases = createDataBaseList([k \in 1..Len(DatabaseNames) |->
                                                   Str(DatabaseNames[k])]),
               !.active = i,
               !.table_schema = Array(CatalogRows(Str(DatabaseNames[i]))),
               !.checklist = createTableList(getTablesNamesFromDatabaseSchema(
                                                Array(CatalogRows(Str(DatabaseNames[i])))))] :
             i \in 1..Len(DatabaseNames)}
    /\ net = {}
    /\ server = [open |-> 0]

NextRawRender ==
    \/ \E checked \in BOOLEAN : CheckAll(checked)
    \/ \E i \in 1..Len(page.checklist) : ToggleCheckbox(i)
    \/ RenderClick

SpecRawRender == InitRawRender /\ [][NextRawRender]_vars


---------------------------------------------------------------------------
(* Properties of the raw render                                            *)

\* the last thing that happened on the page is a render that completed
RenderedRaw == lastCall.op = "render_button.click" /\ ~lastCall.outcome.threw

\* the names that were checked when render was clicked
CheckedAtRender == lastCall.rows

\* the loaded rows of the checked tables, in their loaded order
RowsOfChecked ==
    SelectSeq(page.table_schema.rows,
              LAMBDA row : \E i \in 1..Len(CheckedAtRender) :
                              Get(row, "TABLE_NAME") = Str(CheckedAtRender[i]))

\* a row as a camel-cased entry of the ColumnModel shape, pretty-printed as
\* an element of an array
CamelEntryJson(row) ==
    "{\n    "
    \o Join([i \in 1..Len(Fields) |->
               "\"" \o Fields[i] \o "\": " \o JSONStringify(Get(row, RawKeys[i]))], ",\n    ")
    \o "\n  }"

CamelArrayJson(rows) ==
    IF rows = <<>> THEN "[]"
    ELSE "[\n  " \o Join([i \in 1..Len(rows) |-> CamelEntryJson(rows[i])], ",\n  ") \o "\n]"

\* the rows of the checked tables are in the output under the keys the
\* catalog gave them, and nothing else is
RawRowsOfChecked == RenderedRaw => page.output = StringifyPretty(RowsOfChecked)

\* C15: the raw render outputs an array of exactly the loaded rows whose
\* table is checked, each as a camel-cased entry of the ColumnModel shape,
\* and no row of an unchecked table
C15_CamelCasedSelection == RenderedRaw => page.output = CamelArrayJson(RowsOfChecked)


---------------------------------------------------------------------------
(* The round trip: rows are imported into a column and serialised, and the *)
(* page renders the loaded rows                                            *)

\* column.importFromRawData(rawMetadata), for rows imported next to the
\* page: valid ones, with and without null values, with quotes and
\* backslashes in their texts, and three that are rejected: for a missing
\* field, for a field of the wrong type and for not being an object
ImportRow ==
    /\ \E rawMetadata \in
          {BaseRow, VarcharRow, CreatedRow, QuotedRow, TenantRow, BadRow,
           With(BaseRow, "EXTRA" :> Bool(1)), [t |-> "null", fields |-> BaseFields],
           CatalogRows(Str("shop"))[2],
           With(BaseRow, "IS_NULLABLE" :> Str("YES")),
           With(VarcharRow, "COLUMN_KEY" :> Str("") @@ "COLUMN_DEFAULT" :> Str("NULL")),
           With(BaseRow, "ORDINAL_POSITION" :> Num(-1) @@ "NUMERIC_SCALE" :> Num(0))} :
       \E imported \in {importFromRawData(column, rawMetadata)} :
          /\ column' = imported.column
          /\ lastCall' = Call("importFromRawData", Undefined, NoOptions, <<rawMetadata>>,
                              imported.outcome)
    /\ UNCHANGED <<db, web>>

SpecRoundTrip == InitRawRender /\ [][ImportRow \/ NextRawRender]_vars

\* JSON.parse of the texts JSON.stringify(value, null, "  ") makes of an
\* array of flat objects; SyntaxError where the text is not JSON
SyntaxError == [t |-> "SyntaxError", s |-> "", n |-> 0]

Digits == "0123456789"

DigitOf(char) == (CHOOSE i \in 1..10 : SubSeq(Digits, i, i) = char) - 1

RECURSIVE ParseDigits(_, _)
ParseDigits(text, sofar) ==
    IF text = "" THEN sofar
    ELSE ParseDigits(SubSeq(text, 2, Len(text)), 10 * sofar + DigitOf(SubSeq(text, 1, 1)))

IsDigits(text) ==
    /\ text # ""
    /\ \A i \in 1..Len(text) : Contains(Digits, SubSeq(text, i, i))

\* the characters between the quotes of a JSON string, unescaped; "error"
\* as second part where a quote is bare or an escape is unknown
RECURSIVE ParseChars(_, _)
ParseChars(text, sofar) ==
    IF text = "" THEN <<sofar, "ok">>
    ELSE LET c == SubSeq(text, 1, 1) IN
         IF c = "\"" THEN <<sofar, "error">>
         ELSE IF c # "\\" THEN ParseChars(SubSeq(text, 2, Len(text)), sofar \o c)
         ELSE IF Len(text) < 2 THEN <<sofar, "error">>
         ELSE LET e == SubSeq(text, 2, 2) IN
              IF e \in {"\"", "\\"} THEN ParseChars(SubSeq(text, 3, Len(text)), sofar \o e)
              ELSE IF e = "n" THEN ParseChars(SubSeq(text, 3, Len(text)), sofar \o "\n")
              ELSE <<sofar, "error">>

ParseValue(text) ==
    CASE text = "null" -> Null
      [] text = "true" -> Bool(1)
      [] text = "false" -> Bool(0)
      [] Len(text) >= 2 /\ SubSeq(text, 1, 1) = "\"" /\ SubSeq(text, Len(text), Len(text)) = "\"" ->
            LET parsed == ParseChars(SubSeq(text, 2, Len(text) - 1), "") IN
            IF parsed[2] = "ok" THEN Str(parsed[1]) ELSE SyntaxError
      [] IsDigits(text) -> Num(ParseDigits(text, 0))
      [] Len(text) >= 2 /\ SubSeq(text, 1, 1) = "-" /\ IsDigits(SubSeq(text, 2, Len(text))) ->
            Num(0 - ParseDigits(SubSeq(text, 2, Len(text)), 0))
      [] OTHER -> SyntaxError

\* one line of an object: "key": value
ParseMember(line) ==
    LET at == IndexOf(line, "\": ", 1) IN
    IF at = 0 \/ SubSeq(line, 1, 1) # "\""
    THEN [key |-> "", value |-> SyntaxError]
    ELSE [key |-> SubSeq(line, 2, at - 1),
          value |-> ParseValue(SubSeq(line, at + 3, Len(line)))]

\* the entries of the array, each a sequence of [key, value]
ParseBack(text) ==
    IF text = "[]" THEN <<>>
    ELSE LET open == "[\n  {\n    "
             close == "\n  }\n]"
             inner == SubSeq(text, Len(open) + 1, Len(text) - Len(close))
             items == Split(inner, "\n  },\n  {\n    ")
         IN  [i \in 1..Len(items) |->
                LET lines == Split(items[i], ",\n    ") IN
                [k \in 1..Len(lines) |-> ParseMember(lines[k])]]

\* the value an entry has under a key; undefined where it has no such key
ValueUnder(entry, key) ==
    IF \E k \in 1..Len(entry) : entry[k].key = key
    THEN entry[CHOOSE k \in 1..Len(entry) : entry[k].key = key].value
    ELSE Undefined

\* the text is an array whose entries are those of the rows, in their order,
\* each with the 22 values of its row
ReproducesValues(text, rows) ==
    \E parsed \in {ParseBack(text)} :
       /\ Len(parsed) = Len(rows)
       /\ \A i \in 1..Len(rows) :
             /\ Len(parsed[i]) = Len(RawKeys)
             /\ \A f \in 1..Len(RawKeys) :
                   ValueUnder(parsed[i], RawKeys[f]) = Get(rows[i], RawKeys[f])

\* the entries of one table follow each other with rising ordinal positions,
\* and a table once left does not come back
InOrdinalAndFirstSeenOrder(text) ==
    \E parsed \in {ParseBack(text)} :
       \A i, j \in 1..Len(parsed) :
          (i < j /\ ValueUnder(parsed[i], "TABLE_NAME") = ValueUnder(parsed[j], "TABLE_NAME")) =>
             /\ ValueUnder(parsed[i], "ORDINAL_POSITION").n
                   < ValueUnder(parsed[j], "ORDINAL_POSITION").n
             /\ \A k \in i..j :
                   ValueUnder(parsed[k], "TABLE_NAME") = ValueUnder(parsed[i], "TABLE_NAME")

\* C16: a valid row imported and serialised (importFromRawData, then toJSON)
\* gives all 22 fields with the values of the row; and the output of the raw
\* render, parsed back, has for every column of the rendered tables the
\* values of its row, columns in ordinal order, tables in first-seen order
C16_RoundTrip ==
    /\ (Imported /\ ~lastCall.outcome.threw) =>
          \E snapshot \in {toJSON(column)} :
             /\ Len(snapshot) = 22
             /\ \A i \in 1..Len(Fields) :
                   snapshot[i] = [key |-> Fields[i], value |-> Get(lastCall.rows[1], RawKeys[i])]
    /\ RenderedRaw =>
          /\ ReproducesValues(page.output, RowsOfChecked)
          /\ InOrdinalAndFirstSeenOrder(page.output)

\* a row with a nullable column was imported and serialised, and later the
\* three columns of shop.items were rendered, with their ordinals 1, 2, 3
C16_Witness ==
    /\ column.isNullable = Str("YES")
    /\ toJSON(column)[17] = [key |-> "columnKey", value |-> Str("PRI")]
    /\ RenderedRaw
    /\ Len(RowsOfChecked) = 3
    /\ \E parsed \in {ParseBack(page.output)} :
          /\ Len(parsed) = 3
          /\ \A i \in 1..3 : ValueUnder(parsed[i], "ORDINAL_POSITION") = Num(i)
          /\ ValueUnder(parsed[2], "COLUMN_COMMENT")
                = Get(CatalogRows(Str("shop"))[2], "COLUMN_COMMENT")


---------------------------------------------------------------------------
(* Reading: the read operations of a table and of its columns, called on   *)
(* tables the constructor built, and what the caller then does to the      *)
(* object it was given                                                     *)

\* column.getColumnDefinition()
getColumnDefinition(col) ==
    TemplateText(col.columnName) \o " " \o TemplateText(col.columnType)
    \o (IF isPrimaryKey(col) THEN " PRIMARY KEY" ELSE "")
    \o (IF isAutoIncrement(col) THEN " AUTO_INCREMENT" ELSE "")
    \o (IF allowsNull(col) THEN "" ELSE " NOT NULL")

\* table.getColumn(columnName): the column, or null
getColumn(table, columnName) ==
    IF MapHas(table.columns, columnName)
    THEN [t |-> "object", column |-> MapGet(table.columns, columnName)]
    ELSE [t |-> "null", column |-> NewColumn]

\* (variant: toJSON returns the column itself)
Snapshot_ReturnsThis(col) ==
    [isThis |-> TRUE, fields |-> col]

\* the object column.toJSON() returns: {...this} is a new object that has
\* the own fields of the column
Snapshot(col) ==
    [isThis |-> FALSE,
     fields |-> [f \in FieldSet |->
                   toJSON(col)[CHOOSE i \in 1..Len(Fields) : Fields[i] = f].value]]

\* the array table.getColumns() returns: Array.from makes a new array, whose
\* elements are the column objects of the table; a place of the array holds
\* the key of the column it refers to
ColumnsArray(table) ==
    [isStorage |-> FALSE, places |-> [k \in 1..Len(getColumns(table)) |-> table.columns[k].key]]

\* what a caller does to the array: array.pop(), array.reverse(),
\* array.length = 0, array[0] = array[array.length - 1]
Changed(places, change) ==
    CASE change = "pop" -> IF places = <<>> THEN places ELSE SubSeq(places, 1, Len(places) - 1)
      [] change = "reverse" -> [k \in 1..Len(places) |-> places[Len(places) + 1 - k]]
      [] change = "truncate" -> <<>>
      [] change = "overwrite" ->
            IF places = <<>> THEN places ELSE [places EXCEPT ![1] = places[Len(places)]]

InitRead ==
    /\ column = NewColumn
    /\ db \in {addTable(NewDatabase(Str("app")), NewTable(Str("users"), rows).table) :
                  rows \in {<<BaseRow>>, <<BaseRow, VarcharRow>>,
                            <<VarcharRow, CreatedRow, BaseRow>>, <<QuotedRow, TenantRow>>}}
    /\ lastCall = NoCall
    /\ WebAtStart

\* one of the predicates of a column, or getColumnDefinition, called on the
\* k-th column of the i-th table
ReadColumn(i, k, op) ==
    \E col \in {db.tables[i].value.columns[k].value} :
    /\ lastCall' = Call(op, col.columnName, NoOptions, <<>>,
                        Returned(CASE op = "isPrimaryKey" -> BoolText(isPrimaryKey(col))
                                   [] op = "allowsNull" -> BoolText(allowsNull(col))
                                   [] op = "isAutoIncrement" -> BoolText(isAutoIncrement(col))
                                   [] op = "getColumnDefinition" -> getColumnDefinition(col)))
    /\ UNCHANGED <<column, db, web>>

\* table.getColumn(columnName) on the i-th table
GetColumn(i, columnName) ==
    \E table \in {db.tables[i].value} :
    /\ lastCall' = Call("getColumn", table.tableName, NoOptions, <<columnName>>,
                        Returned(getColumn(table, columnName).t))
    /\ UNCHANGED <<column, db, web>>

\* snapshot = column.toJSON(); snapshot[field] = "changed", for the k-th
\* column of the i-th table.  column is the snapshot the caller holds.
ToJSONThenWrite(i, k, field) ==
    \E snapshot \in {Snapshot(db.tables[i].value.columns[k].value)} :
    /\ column' = [snapshot.fields EXCEPT ![field] = Str("changed")]
    /\ db' = IF snapshot.isThis
             THEN [db EXCEPT !.tables[i].value.columns[k].value[field] = Str("changed")]
             ELSE db
    /\ lastCall' = Call("toJSON", db.tables[i].value.tableName, NoOptions, <<Num(k), Str(field)>>,
                        Returned("object"))
    /\ UNCHANGED web

\* array = table.getColumns(), then one change of the array, for the i-th table.
\* The call keeps the places of the array the caller holds.
GetColumnsThenChange(i, change) ==
    \E table \in {db.tables[i].value} :
    \E array \in {ColumnsArray(table)} :
    \E places \in {Changed(array.places, change)} :
    /\ db' = IF array.isStorage
             THEN [db EXCEPT !.tables[i].value.columns =
                      [k \in 1..Len(places) |->
                          [key |-> places[k], value |-> MapGet(table.columns, places[k])]]]
             ELSE db
    /\ lastCall' = Call("getColumns", table.tableName, NoOptions, <<Str(change)>> \o places,
                        Returned("array"))
    /\ UNCHANGED <<column, web>>

\* table.getColumns()[k - 1].columnComment = "changed": the element is
\* the column object of the table, so it is the column of the table that is
\* written
WriteElement(i, k) ==
    \E table \in {db.tables[i].value} :
    \E key \in {ColumnsArray(table).places[k]} :
    /\ db' = [db EXCEPT !.tables[i].value.columns =
                 MapSet(table.columns, key,
                        [MapGet(table.columns, key) EXCEPT !.columnComment = Str("changed")])]
    /\ lastCall' = Call("write element", table.tableName, NoOptions, <<Num(k)>>, Returned(""))
    /\ UNCHANGED <<column, web>>

NextRead ==
    \/ \E i \in 1..Len(db.tables), options \in OptionSet : GenerateCreateTableQuery(i, options)
    \/ \E i \in 1..Len(db.tables) : \E k \in 1..Len(db.tables[i].value.columns) :
          \E op \in {"isPrimaryKey", "allowsNull", "isAutoIncrement", "getColumnDefinition"} :
             ReadColumn(i, k, op)
    \/ \E i \in 1..Len(db.tables), columnName \in {Str("id"), Str("name"), Str("nope")} :
          GetColumn(i, columnName)
    \/ \E i \in 1..Len(db.tables) : \E k \in 1..Len(db.tables[i].value.columns) :
          \E field \in {"columnName", "columnComment"} : ToJSONThenWrite(i, k, field)
    \/ \E i \in 1..Len(db.tables), change \in {"pop", "reverse", "truncate", "overwrite"} :
          GetColumnsThenChange(i, change)
    \/ \E i \in 1..Len(db.tables) : \E k \in 1..Len(db.tables[i].value.columns) :
          WriteElement(i, k)

SpecRead == InitRead /\ [][NextRead]_vars


---------------------------------------------------------------------------
(* Properties of reading                                                   *)

ReadOperations ==
    {"generateCreateTableQuery", "getColumns", "getColumn", "getColumnDefinition", "toJSON",
     "isPrimaryKey", "allowsNull", "isAutoIncrement"}

\* the step is a call of one of the read operations, with what the caller
\* did to the snapshot or to the array it returned
ReadStep == lastCall' # lastCall /\ lastCall'.op \in ReadOperations

\* C17: generateCreateTableQuery, getColumns, getColumn, getColumnDefinition,
\* toJSON, isPrimaryKey, allowsNull and isAutoIncrement leave the column map
\* of every table as it was (keys, order, every field of every column), and
\* so does writing a field of the snapshot toJSON returned or changing the
\* array getColumns returned
C17_ReadsLeaveModel == [][ReadStep => db' = db]_vars

\* the caller wrote the name of a snapshot, and the column the snapshot was
\* taken of has the name it had, every other field being that of the snapshot;
\* the table has more than one column
C17_Witness ==
    /\ lastCall.op = "toJSON"
    /\ column.columnName = Str("changed")
    /\ \E i \in 1..Len(db.tables) :
          /\ Len(db.tables[i].value.columns) > 1
          /\ \E k \in 1..Len(db.tables[i].value.columns) :
                \E col \in {db.tables[i].value.columns[k].value} :
                   /\ lastCall.rows = <<Num(k), Str("columnName")>>
                   /\ col.columnName # Str("changed")
                   /\ [col EXCEPT !.columnName = Str("changed")] = column

---------------------------------------------------------------------------
(* Escaping, charset and collation in the statements                       *)

\* the default of a column as C21 reads it: escaped wherever it is put
\* between single quotes, the hex literal included
EscapedDefault(col) ==
    IF ToLowerCase(col.dataType.s) \in {"blob", "binary"}
    THEN "x'" \o ClaimedEscaped(col.columnDefault.s) \o "'"
    ELSE ClaimedDefault(col)

\* the last characters of the statement when the table comment is given
ClaimedCommentTail == " COMMENT='" \o ClaimedEscaped(lastCall.options.comment.s) \o "';"

EndsWith(str, pat) == TextAt(str, Len(str) - Len(pat) + 1, pat)

\* the texts that stand between single quotes outside the hex literal are
\* escaped: column comments, defaults of the string family, table comment
EscapedButHex ==
    (Generated /\ ~lastCall.outcome.threw) =>
        /\ \A i \in 1..Len(CalledColumns) :
              StatementLines(lastCall.outcome.value)[i] = ClaimedDefinition(CalledColumns[i])
        /\ Truthy(lastCall.options.comment) =>
              EndsWith(lastCall.outcome.value, ClaimedCommentTail)

\* C21: every text of a column comment, a table comment or a column default
\* that the statement has between single quotes was escaped first, each
\* single quote and each backslash doubled, the hex literal of blob and
\* binary defaults included.
C21_QuotedTextsEscaped ==
    (Generated /\ ~lastCall.outcome.threw) =>
        /\ \A i \in 1..Len(CalledColumns) :
              LET col == CalledColumns[i] IN
              StatementLines(lastCall.outcome.value)[i] =
                 ClaimedHead(col)
                 \o (IF col.columnDefault.t # "null"
                     THEN " DEFAULT " \o EscapedDefault(col) ELSE "")
                 \o ClaimedRest(col)
        /\ Truthy(lastCall.options.comment) =>
              EndsWith(lastCall.outcome.value, ClaimedCommentTail)

\* the first of the texts that is a non-empty string, in the order: option,
\* field of the first column, fallback
FirstNonEmpty(option, field, fallback) ==
    IF option.t = "string" /\ option.s # "" THEN option.s
    ELSE IF field.t = "string" /\ field.s # "" THEN field.s
    ELSE fallback

ClaimedCharset ==
    FirstNonEmpty(lastCall.options.charset, CalledColumns[1].characterSetName, "utf8mb4")

ClaimedCollation ==
    FirstNonEmpty(lastCall.options.collation, CalledColumns[1].collationName,
                  "utf8mb4_unicode_ci")

\* C22: the charset and the collation of the statement are each the option
\* if it is given and not empty, else the field of the first column if it is
\* neither null nor empty, else utf8mb4 and utf8mb4_unicode_ci; the statement
\* ends with DEFAULT CHARSET=<charset> COLLATE=<collation>, the table comment
\* if one is given, and a semicolon.
C22_CharsetAndCollation ==
    (Generated /\ ~lastCall.outcome.threw) =>
        /\ EndsWith(lastCall.outcome.value,
                    " DEFAULT CHARSET=" \o ClaimedCharset \o " COLLATE=" \o ClaimedCollation
                    \o (IF Truthy(lastCall.options.comment)
                        THEN SubSeq(ClaimedCommentTail, 1, Len(ClaimedCommentTail) - 1)
                        ELSE "")
                    \o ";")
        /\ IndexOf(lastCall.outcome.value, " DEFAULT CHARSET=", 1)
              >= IndexOf(lastCall.outcome.value, "\n)", 1)

\* a statement was returned for a table whose first column has an empty
\* character set name and whose second column has one, with the charset
\* option latin1, an empty collation option and a table comment: the charset
\* is the option, the collation that of the first column
C22_Witness ==
    /\ Generated
    /\ ~lastCall.outcome.threw
    /\ Len(CalledColumns) = 2
    /\ CalledColumns[1].characterSetName = Str("")
    /\ CalledColumns[2].characterSetName = Str("utf8")
    /\ lastCall.options.collation = Str("")
    /\ lastCall.options.charset = Str("latin1")
    /\ Contains(lastCall.outcome.value, " DEFAULT CHARSET=latin1 COLLATE=utf8_bin COMMENT=")

---------------------------------------------------------------------------
(* Failed validation: rows are imported into one column object, folded     *)
(* into the database and given to the constructor of MySQLTable, some of   *)
(* them rows that the validation rejects                                   *)

SpecFailure ==
    Init /\ [][\/ ImportRow
               \/ \E rawMetadata \in {BaseRow, VarcharRow, PostsIdRow, BadRow,
                                      With(PostsIdRow, "ORDINAL_POSITION" :> Str("1")),
                                      [t |-> "string", fields |-> BaseFields]} :
                     FoldRow(rawMetadata)
               \/ \E tableName \in {Str("users"), Str("posts")},
                     rows \in {<<VarcharRow, BaseRow>>, <<BadRow>>, <<BaseRow, BadRow, VarcharRow>>,
                               <<PostsIdRow, With(BaseRow, "EXTRA" :> Bool(1))>>} :
                     CreateTable(tableName, rows)]_vars

\* the outcomes of the validation of the rows that the step gives to its call
Validations == [i \in 1..Len(lastCall'.rows) |-> assertColumnMetadataRaw(lastCall'.rows[i])]

\* a step that calls importFromRawData, one turn of the fold or the constructor
GivesRows ==
    /\ lastCall' # lastCall
    /\ lastCall'.op \in {"importFromRawData", "fold", "new MySQLTable"}

\* C23: when the validation of a row fails, the call ends with the error of
\* the validation and nothing is assigned: importFromRawData leaves every
\* field of its column as it was, the fold adds no column and no table, and
\* the constructor of MySQLTable yields no table.
C23_FailedValidationChangesNothing ==
    [][GivesRows =>
          \E checked \in {Validations} :
          \A i \in 1..Len(checked) :
             (checked[i].threw /\ \A j \in 1..(i - 1) : ~checked[j].threw) =>
                /\ lastCall'.outcome = checked[i]
                /\ column' = column
                /\ db' = db]_vars

\* the constructor was given three rows for a new table, the second of them
\* rejected, after a row was imported into the column and a table was
\* built: the error came back and the database has no table of that name
C23_Witness ==
    /\ lastCall.op = "new MySQLTable"
    /\ Len(lastCall.rows) = 3
    /\ ~assertColumnMetadataRaw(lastCall.rows[1]).threw
    /\ lastCall.outcome.threw
    /\ lastCall.outcome.error = "Missing required field: COLUMN_NAME"
    /\ column # NewColumn
    /\ Len(db.tables) = 1
    /\ ~MapHas(db.tables, lastCall.table)

---------------------------------------------------------------------------
(* Order and typing of the declarations that the source renderers emit     *)

\* the elements of a sequence of texts, each at its first place only
RECURSIVE FirstSeen(_, _)
FirstSeen(texts, seen) ==
    IF texts = <<>> THEN seen
    ELSE FirstSeen(Tail(texts),
                   IF \E i \in 1..Len(seen) : seen[i] = Head(texts)
                   THEN seen ELSE Append(seen, Head(texts)))

\* the table names of the rows of the last call in the order in which each
\* is first seen, and the column names of one table likewise
TablesInOrder ==
    FirstSeen([i \in 1..Len(lastCall.rows) |-> lastCall.rows[i].fields["TABLE_NAME"].s], <<>>)
ColumnsInOrder(tableName) ==
    LET rows == SelectSeq(lastCall.rows, LAMBDA row : row.fields["TABLE_NAME"].s = tableName)
    IN FirstSeen([i \in 1..Len(rows) |-> rows[i].fields["COLUMN_NAME"].s], <<>>)

\* the texts that open the declaration of a table and of a column, for each
\* of the two renderers
Opening(tableName) ==
    IF lastCall.op = "convertColumnMetadataToJsCode"
    THEN "\nexport const " \o tableName \o " = {\n"
    ELSE "\nexport class " \o ToUpperCase(SubSeq(tableName, 1, 1))
         \o SubSeq(tableName, 2, Len(tableName)) \o "Item {\n"
ColumnOpening(columnName) ==
    IF lastCall.op = "convertColumnMetadataToJsCode"
    THEN "\n    " \o columnName \o ": {\n"
    ELSE "} */\n    " \o columnName \o ";\n"

\* the openings the claim expects, in its order
RECURSIVE ExpectedOpenings(_)
ExpectedOpenings(tableNames) ==
    IF tableNames = <<>> THEN <<>>
    ELSE <<Opening(Head(tableNames))>>
         \o [i \in 1..Len(ColumnsInOrder(Head(tableNames))) |->
               ColumnOpening(ColumnsInOrder(Head(tableNames))[i])]
         \o ExpectedOpenings(Tail(tableNames))

\* the texts stand in the text one after the other, from the index on
RECURSIVE OneAfterTheOther(_, _, _)
OneAfterTheOther(text, texts, from) ==
    \/ texts = <<>>
    \/ \E at \in {IndexOf(text, Head(texts), from)} :
          at # 0 /\ OneAfterTheOther(text, Tail(texts), at + 1)

Occurrences(text, pat) == Cardinality({i \in 1..Len(text) : TextAt(text, i, pat)})

\* C24: for a list of valid rows the renderers emit the tables in the order
\* in which each table name is first seen and, within a table, the columns in
\* the order in which each column name is first inserted, not in that of
\* ordinalPosition; each table name has one declaration, each column name of
\* a table one.
C24_FirstSeenOrder ==
    (Rendered /\ Len(lastCall.rows) > 0 /\ AllValid(lastCall.rows)) =>
        \E text \in {"\n" \o lastCall.outcome.value},
           openings \in {ExpectedOpenings(TablesInOrder)} :
           /\ ~lastCall.outcome.threw
           /\ OneAfterTheOther(text, openings, 1)
           /\ Occurrences(text, "\nexport c") = Len(TablesInOrder)
           /\ Occurrences(text, IF lastCall.op = "convertColumnMetadataToJsCode"
                                THEN ": {\n" ELSE "} */\n")
                 = Len(openings) - Len(TablesInOrder)

\* a text was returned for five rows of two tables in which users comes
\* first, its rows enclose one of posts, created (ordinal 3) comes before name
\* (2) and id (1), and name comes twice
C24_Witness ==
    /\ Rendered
    /\ ~lastCall.outcome.threw
    /\ Len(lastCall.rows) = 5
    /\ TablesInOrder = <<"users", "posts">>
    /\ ColumnsInOrder("users") = <<"created", "name", "id">>
    /\ IndexOf(lastCall.outcome.value, "users", 1000)
          < IndexOf(lastCall.outcome.value, "posts", 1000)

\* the declaration of one table in the text of the class renderer: from its
\* opening to the line that closes it
ClassOf(text, tableName) ==
    LET from == IndexOf(text, Opening(tableName), 1) IN
    SubSeq(text, from, IndexOf(text, "\n};", from) + 2)

\* the data type of a column: that of the last row of its table and name
DataTypeOf(tableName, columnName) ==
    LET rows == SelectSeq(lastCall.rows,
                          LAMBDA row : /\ row.fields["TABLE_NAME"].s = tableName
                                       /\ row.fields["COLUMN_NAME"].s = columnName)
    IN rows[Len(rows)].fields["DATA_TYPE"].s

\* the string predicate char|varchar|tinytext|text|mediumtext|longtext
MatchesStringPredicate(dataType) ==
    \E pat \in {"char", "varchar", "tinytext", "text", "mediumtext", "longtext"} :
       Contains(ToLowerCase(dataType), pat)

\* C25: for every column of every table the class renderer emits exactly one
\* field declaration and exactly one assignment in the constructor; the
\* field is declared string and assigned with String(...) if and only if
\* the data type of the column matches the string predicate, and declared
\* number and assigned with Number(...) otherwise; the renderer does not
\* raise on validated rows.
C25_TypedFields ==
    (/\ lastCall.op = "convertColumnMetadataToJsClassCode"
     /\ Len(lastCall.rows) > 0
     /\ AllValid(lastCall.rows)) =>
        /\ ~lastCall.outcome.threw
        /\ \A t \in 1..Len(TablesInOrder) :
           \E class \in {ClassOf("\n" \o lastCall.outcome.value, TablesInOrder[t])},
              names \in {ColumnsInOrder(TablesInOrder[t])} :
              /\ Occurrences(class, "\n    /** @type {") = Len(names)
              /\ Occurrences(class, "\n        this.") = Len(names)
              /\ Occurrences(class, "\n    constructor(data) {\n") = 1
              /\ \A c \in 1..Len(names) :
                    LET isString == MatchesStringPredicate(DataTypeOf(TablesInOrder[t], names[c]))
                    IN /\ Occurrences(class, "\n    " \o names[c] \o ";\n") = 1
                       /\ Occurrences(class, "\n        this." \o names[c] \o " = ") = 1
                       /\ Occurrences(class,
                                      "\n    /** @type {"
                                      \o (IF isString THEN "string" ELSE "number")
                                      \o "} */\n    " \o names[c] \o ";\n") = 1
                       /\ Occurrences(class,
                                      "\n        this." \o names[c] \o " = "
                                      \o (IF isString THEN "String" ELSE "Number")
                                      \o "(data." \o names[c] \o ");\n") = 1

\* the class renderer returned a text for three columns of the data types
\* tinytext, json and nchar: string, number, string
C25_Witness ==
    /\ lastCall.op = "convertColumnMetadataToJsClassCode"
    /\ ~lastCall.outcome.threw
    /\ Len(lastCall.rows) = 3
    /\ DataTypeOf("t", "c1") = "tinytext"
    /\ DataTypeOf("t", "c2") = "json"
    /\ DataTypeOf("t", "c3") = "nchar"
    /\ Contains(lastCall.outcome.value, "this.c2 = Number(data.c2);")
    /\ Contains(lastCall.outcome.value, "this.c3 = String(data.c3);")

---------------------------------------------------------------------------
(* Properties of the browser page                                          *)

\* the rows that tables.list returns for the active database
RowsOfActive == CatalogRows(Str(page.databases[page.active]))

\* C26: once no request is in flight, the stored table_schema and the table
\* checklist are those of the currently active database, never those of a
\* database that was selected before, whatever the order of clicks, reloads
\* and arrivals of responses.
C26_SchemaOfActiveDatabase ==
    (/\ net = {}
     /\ page.active # 0
     /\ page.table_schema.t = "array"
     /\ page.table_schema.rows # <<>>) =>
        /\ page.table_schema.rows = RowsOfActive
        /\ [i \in 1..Len(page.checklist) |-> Str(page.checklist[i].value)]
              = getTablesNamesFromDatabaseSchema(Array(RowsOfActive))

\* C27: table_schema is an array in every reachable state of the page, so
\* neither the render handler nor the rebuild of the table list fails on it,
\* also after a tables.list request that returned an error and after a
\* reload of the table list without an active database.
C27_TableSchemaIsArray ==
    /\ page.table_schema.t = "array"
    /\ lastCall.outcome # Threw("TypeError")

---------------------------------------------------------------------------
(* Order of the columns and of the tables                                  *)

\* the keys of a Map in its order
KeysInOrder(entries) == [i \in 1..Len(entries) |-> entries[i].key]

\* the sequence later is the sequence earlier, or the sequence earlier with
\* one element after it
SameOrOneMore(earlier, later) ==
    /\ Len(later) \in {Len(earlier), Len(earlier) + 1}
    /\ SubSeq(later, 1, Len(earlier)) = earlier

\* a step that inserts a column into a table or a table into the database
Inserts ==
    /\ lastCall' # lastCall
    /\ lastCall'.op \in {"addColumn", "fold", "new MySQLTable"}

\* C28: a column that a later insertion of the same name overwrites keeps the
\* place of its first insertion in the order of getColumns, so the order of
\* the column names of a table never changes once they are inserted; and
\* addTable with the name of a present table keeps the place of that table.
C28_FirstPlaceKept ==
    [][Inserts =>
          /\ SameOrOneMore(KeysInOrder(db.tables), KeysInOrder(db'.tables))
          /\ lastCall'.op \in {"addColumn", "fold"} =>
                \A i \in 1..Len(db.tables) :
                   /\ SameOrOneMore(KeysInOrder(db.tables[i].value.columns),
                                    KeysInOrder(db'.tables[i].value.columns))
                   /\ [k \in 1..Len(db.tables[i].value.columns) |->
                          getColumns(db'.tables[i].value)[k].columnName]
                        = [k \in 1..Len(db.tables[i].value.columns) |->
                             getColumns(db.tables[i].value)[k].columnName]]_vars

\* addColumn overwrote the column name of users, which is still the first of
\* two columns, in a database whose first table is users and whose second is
\* posts
C28_Witness ==
    /\ lastCall.op = "addColumn"
    /\ lastCall.rows = <<VarcharRowAgain>>
    /\ KeysInOrder(db.tables) = <<Str("users"), Str("posts")>>
    /\ KeysInOrder(db.tables[1].value.columns) = <<Str("name"), Str("id")>>
    /\ db.tables[1].value.columns[1].value.columnType = Str("varchar(32)")

---------------------------------------------------------------------------
(* The database of the row fold: every table is made by a turn of the loop *)
(* of the renderers, and statements are asked of these tables              *)

SpecFold ==
    Init /\ [][\/ \E rawMetadata \in
                     TableRows \cup {CreatedRow, [t |-> "null", fields |-> BaseFields],
                                     With(PostsIdRow, "DATA_TYPE" :> Num(3))} :
                     FoldRow(rawMetadata)
               \/ \E i \in 1..Len(db.tables), options \in OptionSet :
                     GenerateCreateTableQuery(i, options)]_vars

\* C29: every table of a database that the row fold built has at least one
\* column whenever it can be seen: a table is created only in the turn of a
\* row that passed validation and gets the column of that row in the same
\* turn, so generateCreateTableQuery does not raise the empty-table error
\* on such a table.
C29_FoldBuiltTablesHaveColumns ==
    /\ \A i \in 1..Len(db.tables) : Len(getColumns(db.tables[i].value)) >= 1
    /\ Generated => ~lastCall.outcome.threw
    /\ (lastCall.op = "fold" /\ lastCall.outcome.threw) => lastCall.table = Undefined

\* a statement was returned for the table posts, the second of two tables of
\* the fold, which has one column
C29_Witness ==
    /\ Generated
    /\ ~lastCall.outcome.threw
    /\ lastCall.table = Str("posts")
    /\ Len(db.tables) = 2
    /\ Len(getColumns(db.tables[2].value)) = 1
    /\ Len(getColumns(db.tables[1].value)) = 3

---------------------------------------------------------------------------
(* The server under fair scheduling: a request that is in flight is served *)
(* and an answer is taken                                                  *)

SpecServerFair == SpecServer /\ WF_vars(NextServer)

\* C30: every connection that api_database_list or api_tables_list opens is
\* ended by the time the call has returned its response, on the success
\* path and on every failure path, also when the query fails after the
\* connection was created: no connection stays open.
C30_ConnectionsEnded == (server.open > 0) ~> (server.open = 0)

=============================================================================
